---- MODULE Spec2Model ----
(***************************************************************************)
(* Model of the firecrawler API: the scraper fallback selector             *)
(* (getScrapingFallbackOrder), the single page fetcher (scrapSingleUrl)    *)
(* and the crawl cancel controller (crawlCancelController).                *)
(*                                                                         *)
(* Three specifications share the module:                                  *)
(*   SpecOrder   getScrapingFallbackOrder applied to every input           *)
(*   Spec        one call of scrapSingleUrl, from entry to return          *)
(*   SpecCancel  concurrent cancel requests against the job queue          *)
(***************************************************************************)
EXTENDS Integers, Sequences, FiniteSets, TLC

VARIABLES
  pc,              \* position of the scrapSingleUrl call (or of the selector call)
  inputUrl,        \* the URL argument as the caller passed it
  env,             \* process.env: the set of configuration keys that are set
  urlToScrap,      \* the (trimmed) URL argument
  pageOptions,     \* the PageOptions argument
  existingHtml,    \* the existingHtml argument
  defaultScraper,  \* the defaultScraper handed to getScrapingFallbackOrder
  scrapersInOrder, \* the fallback order
  idx,             \* number of loop iterations of scrapSingleUrl entered
  attempt,         \* the value returned by the latest attemptScraping
  text, html, rawHtml, screenshot, pageStatusCode, pageError,
  document,        \* the Document returned by scrapSingleUrl
  calls,           \* history: invocations of each scraper by the fallback loop
  customCalls,     \* history: fetches made for the custom-scraping override
  raised,          \* history: the stage at which an exception was raised, if any
  allTimedOut,     \* history: every attempt so far was a fetch that timed out
  jobs,            \* the web scraper queue: state and partial docs of each job
  req,             \* the cancel requests in flight: position and locals of each
  billed,          \* history: the billTeam calls made, in order
  buckets,         \* the rate limiters' store: points consumed under each key
  auth,            \* the supaAuthenticateUser call in flight: position and locals
  authCount,       \* number of supaAuthenticateUser calls started
  network,         \* what the request for each sitemap brings
  sitemapMode,     \* the mode argument of getLinksFromSitemap
  sitemapStack,    \* the calls of getLinksFromSitemap in progress, innermost first
  allUrls,         \* the accumulator the calls of getLinksFromSitemap share
  fetched,         \* history: the sitemaps requested, in order
  pageAnchors,     \* the href of each <a> of the page given to extractLinks
  pageUrl,         \* the baseUrl given to extractLinks
  linksOnPage,     \* the array extractLinks returns
  linksPc,         \* where the call of extractLinks stands
  notify           \* the /serverHealthCheck/notify request, its timer and the queue

inputs == <<inputUrl, env, pageOptions, existingHtml>>
working == <<attempt, text, html, rawHtml, screenshot, pageStatusCode, pageError>>
history == <<calls, customCalls, allTimedOut>>

scrVars == <<pc, inputs, urlToScrap, defaultScraper, scrapersInOrder, idx, working,
             document, raised, history>>

cancelVars == <<jobs, req, billed>>

authVars == <<buckets, auth, authCount>>

sitemapVars == <<network, sitemapMode, sitemapStack, allUrls, fetched>>

linkVars == <<pageAnchors, pageUrl, linksOnPage, linksPc>>

notifyVars == <<notify>>

vars == <<scrVars, cancelVars, authVars, sitemapVars, linkVars, notifyVars>>

\* null / undefined, for strings of the program (error messages, names) ...
Null == "null"
\* ... and for its numbers (pageStatusCode, waitFor)
NoNumber == -1

(***************************************************************************)
(* supaAuthenticateUser: tokens, plans and rate limiters                   *)
(***************************************************************************)

PreviewToken == "this_is_just_a_preview_token"

\* The api keys that exist, and one that does not.
ApiKeys == {"key-starter", "key-standard", "key-scale"}
Tokens == {PreviewToken, "key-unknown"} \cup ApiKeys

\* req.headers.authorization: absent, "Bearer" alone, or "Bearer <token>"
NoHeader == "none"
BearerOnly == "Bearer"
AuthHeaders == {NoHeader, BearerOnly} \cup Tokens

\* RateLimiterMode, and the mode left out of the call
Modes == {"crawl", "scrape", "crawlStatus", "search", "preview"}
ModeArgs == Modes \cup {Null}

\* process.env.STRIPE_PRICE_ID_STANDARD / STRIPE_PRICE_ID_SCALE
StripePriceIdStandard == "price_standard"
StripePriceIdScale == "price_scale"

Plans == {"starter", "standard", "scale"}

\* getPlanByPriceId
getPlanByPriceId(price_id) ==
  CASE price_id = StripePriceIdStandard -> "standard"
    [] price_id = StripePriceIdScale -> "scale"
    [] OTHER -> "starter"

\* The rows get_key_and_price_id_2 returns: api_keys left-joined with
\* subscriptions (a team without a subscription has price_id null).
KeyAndPriceId(api_key) ==
  CASE api_key = "key-starter" -> {[team_id |-> "teamA", price_id |-> Null]}
    [] api_key = "key-standard" -> {[team_id |-> "teamB", price_id |-> StripePriceIdStandard]}
    [] api_key = "key-scale" -> {[team_id |-> "teamC", price_id |-> StripePriceIdScale]}
    [] OTHER -> {}

\* req.headers["x-forwarded-for"] || req.socket.remoteAddress
IncomingIP == "10.0.0.1"

\* const iptoken = incomingIP + token
IpToken(token) == IncomingIP \o token

\* getRateLimiter(mode, token, plan): the limiter of a mode, one per plan
\* where a plan is given.
getRateLimiter(mode, token, plan) == [mode |-> mode, plan |-> plan]

Limiters ==
  {getRateLimiter(m, "", p) : m \in {"crawl", "scrape"}, p \in Plans \cup {Null}}
    \cup {getRateLimiter(m, "", Null) : m \in Modes}

\* The points of a limiter: one capacity per plan, scaled down.
Points(limiter) ==
  CASE limiter.plan = "starter" -> 1
    [] limiter.plan = "standard" -> 2
    [] limiter.plan = "scale" -> 3
    [] OTHER -> 2

\* Mutant of IsPreviewToken: the preview token is treated as an api key.
IsPreviewTokenNever(token) == FALSE

\* token == "this_is_just_a_preview_token"
IsPreviewToken(token) == token = PreviewToken

\* Mutant of SelectLimiter: scrape requests get the limiter without the plan.
SelectLimiterScrapeNoPlan(mode, token, plan) ==
  CASE mode = "crawl" -> getRateLimiter("crawl", token, plan)
    [] mode = "scrape" -> getRateLimiter("scrape", token, Null)
    [] mode = "crawlStatus" -> getRateLimiter("crawlStatus", token, Null)
    [] mode = "search" -> getRateLimiter("search", token, Null)
    [] mode = "preview" -> getRateLimiter("preview", token, Null)
    [] OTHER -> getRateLimiter("crawl", token, Null)

\* switch (mode) of supaAuthenticateUser, for a token that is an api key
SelectLimiter(mode, token, plan) ==
  CASE mode = "crawl" -> getRateLimiter("crawl", token, plan)
    [] mode = "scrape" -> getRateLimiter("scrape", token, plan)
    [] mode = "crawlStatus" -> getRateLimiter("crawlStatus", token, Null)
    [] mode = "search" -> getRateLimiter("search", token, Null)
    [] mode = "preview" -> getRateLimiter("preview", token, Null)
    [] OTHER -> getRateLimiter("crawl", token, Null)

BucketIds == Limiters \X {IpToken(t) : t \in Tokens}

\* A bucket nobody consumed from (buckets come to exist on first use).
NoBuckets == [b \in BucketIds |-> [consumed |-> 0, admitted |-> 0]]

\* rateLimiter.consume(key) rejects when the points are used up.
IsRejected(limiter, bucket) == bucket.consumed + 1 > Points(limiter)

\* The bucket after rateLimiter.consume(key)
Consumed(limiter, bucket) ==
  [consumed |-> bucket.consumed + 1,
   admitted |-> bucket.admitted + (IF IsRejected(limiter, bucket) THEN 0 ELSE 1)]

\* The AuthResponse values supaAuthenticateUser returns
AuthSuccess(team_id) == [success |-> TRUE, team_id |-> team_id, status |-> NoNumber]
AuthFailure(status) == [success |-> FALSE, team_id |-> Null, status |-> status]
NoAuthResponse == [success |-> FALSE, team_id |-> Null, status |-> NoNumber]

\* Mutant of OnConsume: the rejection of consume is not looked at.
OnConsumeIgnored(rejected) == "admitted"

\* try { await rateLimiter.consume(iptoken) } catch { return 429 }
OnConsume(rejected) == IF rejected THEN "limited" ELSE "admitted"

NoLimiter == [mode |-> Null, plan |-> Null]

NoAuthCall ==
  [pc |-> "idle", header |-> NoHeader, mode |-> Null, plan |-> Null, team_id |-> Null,
   limiter |-> NoLimiter, nth |-> 0, result |-> NoAuthResponse]

\* No authentication is around.
AuthIdle ==
  /\ buckets = NoBuckets
  /\ auth = NoAuthCall
  /\ authCount = 0

(***************************************************************************)
(* getLinksFromSitemap: the sitemap documents of a site                    *)
(***************************************************************************)

\* A <sitemap> or <url> entry without a <loc>
NoLoc == "no-loc"

SitemapUrls == {"/sitemap.xml", "/posts.xml", "/docs.xml", "/docs-api.xml", "/pages.xml"}

\* Two sitemap indexes that list each other, and the urlset one of them lists
LoopUrls == {"/loop.xml", "/loop-b.xml", "/pages.xml"}

\* What parseStringPromise makes of each document: a sitemapindex with its
\* <sitemap><loc> entries or a urlset with its <url><loc> entries.
SitemapIndex(locs) == [root |-> "sitemapindex", locs |-> locs]
UrlSet(locs) == [root |-> "urlset", locs |-> locs]

Sitemaps(sitemapUrl) ==
  CASE sitemapUrl = "/sitemap.xml" ->
         SitemapIndex(<<"/posts.xml", NoLoc, "/docs.xml", "/pages.xml">>)
    [] sitemapUrl = "/posts.xml" -> UrlSet(<<"/post/1", "/post/2", "/post/1">>)
    [] sitemapUrl = "/docs.xml" -> SitemapIndex(<<"/docs-api.xml">>)
    [] sitemapUrl = "/docs-api.xml" -> UrlSet(<<"/docs/api", NoLoc, "/about/">>)
    [] sitemapUrl = "/pages.xml" -> UrlSet(<<"/about", "/post/1">>)
    [] sitemapUrl = "/loop.xml" -> SitemapIndex(<<"/pages.xml", "/loop-b.xml">>)
    [] sitemapUrl = "/loop-b.xml" -> SitemapIndex(<<"/loop.xml">>)

\* What a request for a sitemap brings: the document, a network failure, or
\* a body that is no sitemap.
FetchOutcomes == {"ok", "network-failure", "not-xml"}

SitemapModes == {"axios", "fire-engine"}

\* A call of getLinksFromSitemap: its sitemapUrl, where it stands, and how far
\* its loop over root.sitemap has come.
SitemapCall(sitemapUrl) == [sitemapUrl |-> sitemapUrl, at |-> "fetch", i |-> 1]

\* No sitemap is read.
SitemapIdle ==
  /\ network = <<>>
  /\ sitemapMode = "axios"
  /\ sitemapStack = <<>>
  /\ allUrls = <<>>
  /\ fetched = <<>>

(***************************************************************************)
(* getScrapingFallbackOrder                                                *)
(***************************************************************************)

baseScrapers == <<"fire-engine", "scrapingBee", "playwright", "scrapingBeeLoad", "fetch">>

EnvKeys == {"SCRAPING_BEE_API_KEY", "FIRE_ENGINE_BETA_URL", "PLAYWRIGHT_MICROSERVICE_URL"}

\* The configuration key a scraper needs; "fetch" and unknown names need none.
RequiredEnv(scraper) ==
  CASE scraper \in {"scrapingBee", "scrapingBeeLoad"} -> {"SCRAPING_BEE_API_KEY"}
    [] scraper = "fire-engine" -> {"FIRE_ENGINE_BETA_URL"}
    [] scraper = "playwright" -> {"PLAYWRIGHT_MICROSERVICE_URL"}
    [] OTHER -> {}

IsConfigured(scraper, e) == RequiredEnv(scraper) \subseteq e

Range(s) == {s[i] : i \in DOMAIN s}

\* Mutant of Unique: the array is returned as built, duplicates and all.
UniqueSkipped(s) == s

\* Array.from(new Set(s)): first occurrences, in order.
RECURSIVE Unique(_)
Unique(s) ==
  IF s = <<>> THEN <<>>
  ELSE LET front == Unique(SubSeq(s, 1, Len(s) - 1))
           last == s[Len(s)]
       IN IF last \in Range(front) THEN front ELSE Append(front, last)

\* Mutant of availableScrapers: only the scrapers that need a key and have it.
availableScrapersKeyedOnly(e) ==
  SelectSeq(baseScrapers, LAMBDA s : RequiredEnv(s) # {} /\ IsConfigured(s, e))

availableScrapers(e) == SelectSeq(baseScrapers, LAMBDA s : IsConfigured(s, e))

staticOrder == <<"scrapingBee", "fire-engine", "playwright", "scrapingBeeLoad", "fetch">>

defaultOrder(isWaitPresent, isScreenshotPresent, isHeadersPresent) ==
  IF isWaitPresent \/ isScreenshotPresent \/ isHeadersPresent
  THEN <<"fire-engine", "playwright">>
       \o SelectSeq(staticOrder, LAMBDA s : s # "fire-engine" /\ s # "playwright")
  ELSE staticOrder

\* Mutant of getScrapingFallbackOrder: the defaultScraper is added after the
\* other scrapers instead of before them.
getScrapingFallbackOrderDefaultLast(ds, isWaitPresent, isScreenshotPresent, isHeadersPresent, e) ==
  LET filteredDefaultOrder ==
        SelectSeq(defaultOrder(isWaitPresent, isScreenshotPresent, isHeadersPresent),
                  LAMBDA s : s \in Range(availableScrapers(e)))
  IN Unique(IF ds # ""
            THEN filteredDefaultOrder \o availableScrapers(e) \o <<ds>>
            ELSE filteredDefaultOrder \o availableScrapers(e))

\* defaultScraper "" is JavaScript-falsy: nothing is prepended for it.
getScrapingFallbackOrder(ds, isWaitPresent, isScreenshotPresent, isHeadersPresent, e) ==
  LET filteredDefaultOrder ==
        SelectSeq(defaultOrder(isWaitPresent, isScreenshotPresent, isHeadersPresent),
                  LAMBDA s : s \in Range(availableScrapers(e)))
  IN Unique(IF ds # ""
            THEN <<ds>> \o filteredDefaultOrder \o availableScrapers(e)
            ELSE filteredDefaultOrder \o availableScrapers(e))

\* The three flags scrapSingleUrl derives from pageOptions (JavaScript truthiness).
isWaitPresent(po) == po.waitFor # NoNumber /\ po.waitFor > 0
isScreenshotPresent(po) == po.screenshot = TRUE
isHeadersPresent(po) == po.headers # Null

(***************************************************************************)
(* Strings and pages.  A string is kept as its length and its trimmed      *)
(* length, with the page and the form (raw, cleaned, markdown) it is;      *)
(* the empty string is one value whatever produced it.                     *)
(***************************************************************************)

EmptyStr == [of |-> "", form |-> "", len |-> 0, trim |-> 0]

\* undefined, where the program expects a string
NoStr == [of |-> "undefined", form |-> "", len |-> -1, trim |-> -1]

Str(of, form, len, trim) ==
  IF len = 0 THEN EmptyStr ELSE [of |-> of, form |-> form, len |-> len, trim |-> trim]

\* A page body: the raw HTML a fetch returns, what removeUnwantedElements
\* leaves of it, and what parseMarkdown makes of that.
Page(name, rawLen, rawTrim, cleanLen, cleanTrim, mdLen, mdTrim) ==
  [raw |-> Str(name, "raw", rawLen, rawTrim),
   clean |-> Str(name, "clean", cleanLen, cleanTrim),
   md |-> Str(name, "md", mdLen, mdTrim)]

PEmpty == Page("", 0, 0, 0, 0, 0, 0)
\* markup with little text: the markdown is below the threshold once trimmed
PThin == Page("thin", 300, 300, 120, 120, 101, 99)
\* markup whose markdown is whitespace only
PBlank == Page("blank", 300, 300, 30, 30, 2, 0)
\* a page whose markdown is exactly at the threshold
PFull == Page("full", 300, 300, 200, 200, 100, 100)
\* exactly 100 characters of scripts and styles: nothing is left after cleaning
PScripts == Page("scripts", 100, 100, 0, 0, 0, 0)
\* a short body padded with whitespace to 100 characters and more
PStub == Page("stub", 101, 99, 101, 99, 99, 99)
\* the document of an extracted PDF
PPdf == Page("pdf", 150, 150, 150, 150, 150, 150)

Pages == {PEmpty, PThin, PBlank, PFull, PScripts, PStub, PPdf}

\* removeUnwantedElements(html, pageOptions)
removeUnwantedElements(raw) == (CHOOSE p \in Pages : p.raw = raw).clean

\* parseMarkdown(cleanedHtml)
parseMarkdown(cleaned) == (CHOOSE p \in Pages : p.clean = cleaned).md

MinTextLength == 100

\* text && text.trim().length >= 100
IsSufficient(s) == s.len > 0 /\ s.trim >= MinTextLength

(***************************************************************************)
(* URLs: new URL(url).hostname.replace(/^www\./, "") and the per-domain    *)
(* table urlSpecificParams.                                                *)
(***************************************************************************)

InputUrls == {" https://example.com/page ", "https://www.docs.dev/guide", "not a url"}

\* String.prototype.trim on the inputs above.
TrimUrl(u) == IF u = " https://example.com/page " THEN "https://example.com/page" ELSE u

IsParseable(u) == u \in {"https://example.com/page", "https://www.docs.dev/guide"}

\* The urlKey of scrapSingleUrl: the hostname without a leading "www.", or
\* the raw string when new URL throws.
UrlKey(u) ==
  CASE u = "https://example.com/page" -> "example.com"
    [] u = "https://www.docs.dev/guide" -> "docs.dev"
    [] OTHER -> u

\* urlSpecificParams[urlKey]?.defaultScraper ?? ""
UrlDefaultScraper(key) == IF key = "docs.dev" THEN "fire-engine" ELSE ""

(***************************************************************************)
(* The fetch backends, seen from attemptScraping: what a scraper module    *)
(* returns.  kind is not read by the program; it names the outcome.        *)
(***************************************************************************)

Resp(kind, page, shot, status, err) ==
  [kind |-> kind, html |-> page.raw, screenshot |-> shot,
   pageStatusCode |-> status, pageError |-> err]

\* scrapWithFireEngine's catch block: the request timed out or failed in transport
TimeoutResponse == Resp("timeout", PEmpty, "", NoNumber, "Request timed out")

BackendResponses(method, po) ==
  {Resp("ok", p, "", 200, Null) : p \in {PEmpty, PThin, PBlank, PFull}}
  \cup {Resp("not-found", p, "", 404, "Not Found") : p \in {PEmpty, PThin, PFull}}
  \cup {Resp("http-error", PEmpty, "", 500, "Internal Server Error")}
  \cup {Resp("pdf", PPdf, "", 200, Null)}
  \cup {TimeoutResponse}
  \cup (IF method = "fire-engine" /\ po.screenshot = TRUE
        THEN {Resp("ok", p, "shot", 200, Null) : p \in {PThin, PFull}}
        ELSE {})

\* What handleCustomScraping can return: no override, or the fetch that is to
\* supersede the attempt's result.
CustomScrapers == {Null, "fire-engine", "pdf"}

\* The bodies the superseding fetch can bring back.
CustomPages(custom) ==
  CASE custom = "fire-engine" -> {PEmpty, PFull}
    [] custom = "pdf" -> {PEmpty, PPdf}
    [] OTHER -> {PEmpty}

CustomFetchers == {"fire-engine", "pdf"}

\* The screenshot of the superseding fetch: fire-engine is asked for none, and
\* the pdf case passes the local screenshot, which is still "".
CustomScreenshot == ""

\* The switch of attemptScraping invokes the scraper module only behind its
\* environment guard.
IsInvoked(method, e) == method \in Range(baseScrapers) /\ IsConfigured(method, e)

NoAttempt == [text |-> NoStr, html |-> NoStr, rawHtml |-> NoStr, screenshot |-> "",
              pageStatusCode |-> NoNumber, pageError |-> Null]

\* The value attemptScraping returns: resp is the scraper's response, custom
\* the verdict of handleCustomScraping and cpage the body of the fetch it asks for.
attemptScraping(method, e, resp, custom, cpage) ==
  LET scraperResponse ==
        IF IsInvoked(method, e)
        THEN [text |-> resp.html,
              screenshot |-> IF method = "fire-engine" THEN resp.screenshot ELSE "",
              pageStatusCode |-> resp.pageStatusCode,
              pageError |-> resp.pageError]
        ELSE [text |-> EmptyStr, screenshot |-> "",
              pageStatusCode |-> NoNumber, pageError |-> Null]
      finalText == IF custom # Null THEN cpage.raw ELSE scraperResponse.text
      cleanedHtml == removeUnwantedElements(finalText)
  IN [text |-> parseMarkdown(cleanedHtml),
      html |-> cleanedHtml,
      rawHtml |-> finalText,
      screenshot |-> scraperResponse.screenshot,
      pageStatusCode |-> scraperResponse.pageStatusCode,
      pageError |-> scraperResponse.pageError]

\* calls after the switch of attemptScraping
CallsAfter(c, method, e) ==
  [f \in Range(baseScrapers) |->
     c[f] + (IF f = method /\ IsInvoked(method, e) THEN 1 ELSE 0)]

\* customCalls after the override switch of attemptScraping
CustomCallsAfter(c, custom) ==
  [f \in CustomFetchers |-> c[f] + (IF f = custom THEN 1 ELSE 0)]

\* if (attempt.pageStatusCode) pageStatusCode = attempt.pageStatusCode
NextStatusCode(cur, att) ==
  IF att.pageStatusCode # NoNumber /\ att.pageStatusCode # 0
  THEN att.pageStatusCode ELSE cur

\* Mutant of NextText: an attempt without text leaves the text as it is.
NextTextKeepsEarlier(cur, att) == IF att.text = EmptyStr THEN cur ELSE att.text

\* text = attempt.text ?? ""
NextText(cur, att) == att.text

\* Mutant of NextPageError: an attempt below 400 leaves the error as it is.
NextPageErrorNeverCleared(cur, att) ==
  IF att.pageError # Null /\ att.pageStatusCode # NoNumber /\ att.pageStatusCode >= 400
  THEN att.pageError
  ELSE cur

\* the pageError update of the loop body
NextPageError(cur, att) ==
  IF att.pageError # Null /\ att.pageStatusCode # NoNumber /\ att.pageStatusCode >= 400
  THEN att.pageError
  ELSE IF att.pageStatusCode # NoNumber /\ att.pageStatusCode # 0 /\ att.pageStatusCode < 400
       THEN Null
       ELSE cur

\* Mutant of BreakOnText: > for >=.
BreakOnTextStrict(txt) == txt.len > 0 /\ txt.trim > MinTextLength

\* if (text && text.trim().length >= 100) break
BreakOnText(txt) == IsSufficient(txt)

\* Mutant of BreakOnNotFound: the 404 break is missing.
BreakOnNotFoundMissing(status) == FALSE

\* if (pageStatusCode && pageStatusCode == 404) break
BreakOnNotFound(status) == status = 404

\* Mutant of IsEmptyText: the check is missing.
IsEmptyTextMissing(txt) == FALSE

\* Mutant of IsEmptyText: the check uses the loop's threshold.
IsEmptyTextBelowThreshold(txt) == ~IsSufficient(txt)

\* if (!text) throw new Error("All scraping methods failed ...")
IsEmptyText(txt) == txt.len = 0

\* Mutant of UsesExistingHtml: > for >=.
UsesExistingHtmlStrict(existing) == existing.len > 0 /\ existing.trim > MinTextLength

\* if (existingHtml && existingHtml.trim().length >= 100)
UsesExistingHtml(existing) == existing.len > 0 /\ existing.trim >= MinTextLength

(***************************************************************************)
(* The requests the scrapers and the sitemap reader issue: the wait the     *)
(* request asks the service for (NoNumber when it asks for none) and the   *)
(* timeout the call is made with.                                          *)
(***************************************************************************)

universalTimeout == 15000

\* the timeout scrapWithScrapingBee is called with (pageOptions.fallback is
\* not set to false)
scrapingBeeTimeout == 15000

\* lib/timeout
axiosTimeout == 3000

\* reqParams["params"]?.wait ?? waitFor, the parameter defaulting to 0
WaitParam(po) == IF po.waitFor = NoNumber THEN 0 ELSE po.waitFor

\* Mutant of BackendRequest: no call adds the wait to its timeout.
BackendRequestWaitNotAdded(method, po) ==
  [wait |-> IF method \in {"fire-engine", "playwright"} THEN WaitParam(po) ELSE NoNumber,
   timeout |-> universalTimeout]

BackendRequest(method, po) ==
  CASE method \in {"fire-engine", "playwright"} ->
         [wait |-> WaitParam(po), timeout |-> universalTimeout + WaitParam(po)]
    [] method = "scrapingBee" -> [wait |-> NoNumber, timeout |-> scrapingBeeTimeout]
    [] method = "scrapingBeeLoad" -> [wait |-> NoNumber, timeout |-> universalTimeout]
    [] OTHER -> [wait |-> NoNumber, timeout |-> universalTimeout]

\* getLinksFromSitemap: axios.get, or scrapWithFireEngine without a waitFor
SitemapRequest(mode) ==
  IF mode = "axios"
  THEN [wait |-> NoNumber, timeout |-> axiosTimeout]
  ELSE [wait |-> 0, timeout |-> universalTimeout + 0]

(***************************************************************************)
(* Documents                                                               *)
(***************************************************************************)

NoLinks == [from |-> NoStr]
EmptyLinks == [from |-> EmptyStr]

\* extractLinks(rawHtml, urlToScrap), kept as the body the links are read from
extractLinks(raw) == [from |-> raw]

NoDocument ==
  [content |-> NoStr, markdown |-> NoStr, html |-> NoStr, rawHtml |-> NoStr,
   linksOnPage |-> NoLinks,
   metadata |-> [sourceURL |-> Null, pageStatusCode |-> NoNumber,
                 pageError |-> Null, screenshot |-> Null]]

\* the Document of the try block
SuccessDocument(url, po, txt, h, raw, shot, status, err) ==
  [content |-> txt, markdown |-> txt,
   html |-> IF po.includeHtml THEN h ELSE NoStr,
   rawHtml |-> IF po.includeRawHtml THEN raw ELSE NoStr,
   linksOnPage |-> extractLinks(raw),
   metadata |-> [sourceURL |-> url, pageStatusCode |-> status, pageError |-> err,
                 screenshot |-> IF shot # "" THEN shot ELSE Null]]

\* the Document of the catch block
FailureDocument(url, status, err) ==
  [content |-> EmptyStr, markdown |-> EmptyStr, html |-> EmptyStr, rawHtml |-> NoStr,
   linksOnPage |-> EmptyLinks,
   metadata |-> [sourceURL |-> url, pageStatusCode |-> status, pageError |-> err,
                 screenshot |-> Null]]

(***************************************************************************)
(* extractLinks: the anchors of a page                                     *)
(***************************************************************************)

\* An <a> without href, or with an empty one
NoHref == ""

Hrefs ==
  {"https://example.com/a", "http://other.org/", "/a", "b", "#top",
   "mailto:x@example.com", "tel:123", NoHref}

\* href.startsWith(prefix), for the hrefs above
StartsWith(href, prefix) ==
  CASE prefix = "http://" -> href = "http://other.org/"
    [] prefix = "https://" -> href = "https://example.com/a"
    [] prefix = "/" -> href = "/a"
    [] prefix = "#" -> href = "#top"
    [] prefix = "mailto:" -> href = "mailto:x@example.com"
    [] OTHER -> FALSE

BaseUrls == {"https://example.com", "https://example.com/dir"}

\* new URL(baseUrl).origin
Origin(baseUrl) == "https://example.com"

\* What one anchor adds to links: nothing, or one link.
LinkOf(href, baseUrl) ==
  IF href = NoHref THEN <<>>
  ELSE IF StartsWith(href, "http://") \/ StartsWith(href, "https://") THEN <<href>>
  ELSE IF StartsWith(href, "/") THEN <<Origin(baseUrl) \o href>>
  ELSE IF ~StartsWith(href, "#") /\ ~StartsWith(href, "mailto:")
    THEN <<baseUrl \o "/" \o href>>
  ELSE IF StartsWith(href, "mailto:") THEN <<href>>
  ELSE <<>>

\* $('a').each(...): the links pushed, in document order
RECURSIVE PushedLinks(_, _)
PushedLinks(anchors, baseUrl) ==
  IF anchors = <<>> THEN <<>>
  ELSE LinkOf(Head(anchors), baseUrl) \o PushedLinks(Tail(anchors), baseUrl)

\* Mutant of WithoutDuplicates: the array is returned as pushed.
WithoutDuplicatesSkipped(links) == links

\* [...new Set(links)]
WithoutDuplicates(links) == Unique(links)

\* extractLinks(html, baseUrl), html given by the hrefs of its anchors
extractLinksOf(anchors, baseUrl) == WithoutDuplicates(PushedLinks(anchors, baseUrl))

\* The handler of /serverHealthCheck/notify: where it stands, whether
\* SLACK_WEBHOOK_URL is set, the queue's waiting count, whether a response was
\* sent, the two counts read, whether Slack was posted to, and the requests so far.
NoNotify ==
  [pc |-> "idle", slack |-> FALSE, waiting |-> 0, responded |-> FALSE,
   first |-> NoNumber, second |-> NoNumber, sent |-> FALSE, requests |-> 0]

\* No health check is around.
NotifyIdle == notify = NoNotify

\* No page's links are extracted.
LinksIdle ==
  /\ pageAnchors = <<>>
  /\ pageUrl = ""
  /\ linksOnPage = <<>>
  /\ linksPc = "idle"

(***************************************************************************)
(* scrapSingleUrl, one call                                                *)
(***************************************************************************)

ScrapeOptions ==
  {[waitFor |-> 0, screenshot |-> FALSE, headers |-> Null,
    includeHtml |-> FALSE, includeRawHtml |-> FALSE],
   [waitFor |-> 1000, screenshot |-> TRUE, headers |-> Null,
    includeHtml |-> TRUE, includeRawHtml |-> TRUE]}

ExistingHtmls == {EmptyStr, PStub.raw, PScripts.raw, PFull.raw}

NoCalls == [f \in Range(baseScrapers) |-> 0]
NoCustomCalls == [f \in CustomFetchers |-> 0]

\* every invocation of a scraper during the call, by the loop or the override
TotalCalls(f) == calls[f] + (IF f \in CustomFetchers THEN customCalls[f] ELSE 0)

\* No cancel request is around while a page is scraped.
CancelIdle ==
  /\ jobs = <<>>
  /\ req = <<>>
  /\ billed = <<>>
  /\ AuthIdle
  /\ SitemapIdle
  /\ LinksIdle
  /\ NotifyIdle

\* The working variables as line 281 declares them.
InitWorking ==
  /\ idx = 0
  /\ attempt = NoAttempt
  /\ text = EmptyStr /\ html = EmptyStr /\ rawHtml = EmptyStr
  /\ screenshot = ""
  /\ pageStatusCode = 200
  /\ pageError = Null
  /\ document = NoDocument
  /\ calls = NoCalls
  /\ customCalls = NoCustomCalls
  /\ raised = Null
  /\ allTimedOut = TRUE

Init ==
  /\ CancelIdle
  /\ pc = "entry"
  /\ inputUrl \in InputUrls
  /\ urlToScrap = inputUrl
  /\ env \in SUBSET EnvKeys
  /\ pageOptions \in ScrapeOptions
  /\ existingHtml \in ExistingHtmls
  /\ defaultScraper = ""
  /\ scrapersInOrder = <<>>
  /\ InitWorking

\* Mutant of InsideTry: the try block ends with the loop.
InsideTryLoopOnly(stage) == stage = "attempt"

\* The statements of scrapSingleUrl that sit inside its try block.
InsideTry(stage) == stage \in {"attempt", "check", "extract"}

\* An exception raised at a stage of the call: caught and answered with the
\* Document of the catch block, or passed on to the caller.
Raise(stage) ==
  /\ raised' = stage
  /\ IF InsideTry(stage)
     THEN /\ document' = FailureDocument(urlToScrap, pageStatusCode, pageError)
          /\ pc' = "done"
     ELSE /\ document' = document
          /\ pc' = "rejected"

\* Entry: trim the URL, look the domain override up, ask for the order.
Enter ==
  /\ pc = "entry"
  /\ urlToScrap' = TrimUrl(inputUrl)
  /\ defaultScraper' = UrlDefaultScraper(UrlKey(urlToScrap'))
  /\ scrapersInOrder' =
       getScrapingFallbackOrder(defaultScraper', isWaitPresent(pageOptions),
                                isScreenshotPresent(pageOptions),
                                isHeadersPresent(pageOptions), env)
  /\ pc' = IF scrapersInOrder' = <<>> THEN "after" ELSE "loop"
  /\ UNCHANGED <<cancelVars, authVars, sitemapVars, linkVars, notifyVars, inputs, idx, working, document, raised, history>>

\* A loop iteration that finds crawler-supplied HTML: no fetch, break.
UseExistingHtml ==
  /\ pc = "loop"
  /\ idx < Len(scrapersInOrder)
  /\ UsesExistingHtml(existingHtml)
  /\ html' = removeUnwantedElements(existingHtml)
  /\ text' = parseMarkdown(html')
  /\ pc' = "after"
  /\ UNCHANGED <<cancelVars, authVars, sitemapVars, linkVars, notifyVars, inputs, urlToScrap, defaultScraper, scrapersInOrder, idx, attempt,
                 rawHtml, screenshot, pageStatusCode, pageError, document, raised,
                 history>>

\* A loop iteration that runs attemptScraping with the next scraper, takes
\* its result over and decides whether to go on.
Attempt ==
  /\ pc = "loop"
  /\ idx < Len(scrapersInOrder)
  /\ ~UsesExistingHtml(existingHtml)
  /\ LET method == scrapersInOrder[idx + 1] IN
     \E resp \in BackendResponses(method, pageOptions), custom \in CustomScrapers :
     \E cpage \in CustomPages(custom) :
       LET att == attemptScraping(method, env, resp, custom, cpage) IN
         /\ attempt' = att
         /\ text' = NextText(text, att)
         /\ html' = att.html
         /\ rawHtml' = att.rawHtml
         /\ screenshot' = att.screenshot
         /\ pageStatusCode' = NextStatusCode(pageStatusCode, att)
         /\ pageError' = NextPageError(pageError, att)
         /\ idx' = idx + 1
         /\ calls' = CallsAfter(calls, method, env)
         /\ customCalls' = CustomCallsAfter(customCalls, custom)
         /\ allTimedOut' = (/\ allTimedOut
                            /\ IsInvoked(method, env)
                            /\ resp = TimeoutResponse
                            /\ custom = Null)
         /\ pc' = IF \/ BreakOnText(text')
                     \/ BreakOnNotFound(pageStatusCode')
                     \/ idx' = Len(scrapersInOrder)
                  THEN "after" ELSE "loop"
  /\ UNCHANGED <<cancelVars, authVars, sitemapVars, linkVars, notifyVars, inputs, urlToScrap, defaultScraper, scrapersInOrder, document, raised>>

\* A loop iteration in which attemptScraping throws (a scraper module, the
\* custom-scraping hook or the scrape log).
AttemptThrows ==
  /\ pc = "loop"
  /\ idx < Len(scrapersInOrder)
  /\ ~UsesExistingHtml(existingHtml)
  /\ calls' = CallsAfter(calls, scrapersInOrder[idx + 1], env)
  /\ allTimedOut' = FALSE
  /\ idx' = idx + 1
  /\ Raise("attempt")
  /\ UNCHANGED <<cancelVars, authVars, sitemapVars, linkVars, notifyVars, inputs, urlToScrap, defaultScraper, scrapersInOrder, working,
                 customCalls>>

\* if (!text) throw new Error("All scraping methods failed ...")
AllFailed ==
  /\ pc = "after"
  /\ IsEmptyText(text)
  /\ Raise("check")
  /\ UNCHANGED <<cancelVars, authVars, sitemapVars, linkVars, notifyVars, inputs, urlToScrap, defaultScraper, scrapersInOrder, idx, working,
                 history>>

\* Metadata and links are extracted and the Document is returned.
BuildDocument ==
  /\ pc = "after"
  /\ ~IsEmptyText(text)
  /\ IsParseable(urlToScrap)
  /\ document' = SuccessDocument(urlToScrap, pageOptions, text, html, rawHtml,
                                 screenshot, pageStatusCode, pageError)
  /\ pc' = "done"
  /\ UNCHANGED <<cancelVars, authVars, sitemapVars, linkVars, notifyVars, inputs, urlToScrap, defaultScraper, scrapersInOrder, idx, working,
                 raised, history>>

\* extractLinks throws on new URL(baseUrl) when the URL does not parse.
ExtractThrows ==
  /\ pc = "after"
  /\ ~IsEmptyText(text)
  /\ ~IsParseable(urlToScrap)
  /\ Raise("extract")
  /\ UNCHANGED <<cancelVars, authVars, sitemapVars, linkVars, notifyVars, inputs, urlToScrap, defaultScraper, scrapersInOrder, idx, working,
                 history>>

Next ==
  \/ Enter
  \/ UseExistingHtml
  \/ Attempt
  \/ AttemptThrows
  \/ AllFailed
  \/ BuildDocument
  \/ ExtractThrows

Spec == Init /\ [][Next]_vars

(***************************************************************************)
(* getScrapingFallbackOrder on its own, over every input                   *)
(***************************************************************************)

DefaultScrapers == {""} \cup Range(baseScrapers)

OrderOptions ==
  [waitFor : {NoNumber, 0, 1000}, screenshot : BOOLEAN, headers : {Null, "empty", "set"},
   includeHtml : {FALSE}, includeRawHtml : {FALSE}]

InitOrder ==
  /\ CancelIdle
  /\ pc = "order"
  /\ inputUrl = "https://example.com/page"
  /\ urlToScrap = inputUrl
  /\ env \in SUBSET EnvKeys
  /\ pageOptions \in OrderOptions
  /\ existingHtml = EmptyStr
  /\ defaultScraper \in DefaultScrapers
  /\ scrapersInOrder = <<>>
  /\ InitWorking

OrderCall ==
  /\ pc = "order"
  /\ scrapersInOrder' =
       getScrapingFallbackOrder(defaultScraper, isWaitPresent(pageOptions),
                                isScreenshotPresent(pageOptions),
                                isHeadersPresent(pageOptions), env)
  /\ pc' = "ordered"
  /\ UNCHANGED <<cancelVars, authVars, sitemapVars, linkVars, notifyVars, inputs, urlToScrap, defaultScraper, idx, working, document, raised,
                 history>>

NextOrder == OrderCall

SpecOrder == InitOrder /\ [][NextOrder]_vars

(***************************************************************************)
(* supaAuthenticateUser, one call after another against the same limiter   *)
(* store.  No limiter's window ends while the calls are made.              *)
(***************************************************************************)

MaxAuthCalls == 3

\* No page is scraped while requests are authenticated or cancelled.
ScrapeIdle ==
  /\ pc = "idle"
  /\ inputUrl = "https://example.com/page"
  /\ urlToScrap = inputUrl
  /\ env = {}
  /\ pageOptions \in {po \in ScrapeOptions : po.waitFor = 0}
  /\ existingHtml = EmptyStr
  /\ defaultScraper = ""
  /\ scrapersInOrder = <<>>
  /\ InitWorking

InitAuth ==
  /\ ScrapeIdle
  /\ jobs = <<>>
  /\ req = <<>>
  /\ billed = <<>>
  /\ AuthIdle
  /\ SitemapIdle
  /\ LinksIdle
  /\ NotifyIdle

\* auth, returned with the given response
Returned(response) == [auth EXCEPT !.pc = "done", !.result = response]

\* A request arrives: supaAuthenticateUser(req, res, mode)
AuthBegin ==
  /\ auth.pc \in {"idle", "done"}
  /\ authCount < MaxAuthCalls
  /\ \E h \in AuthHeaders, m \in ModeArgs :
       auth' = [NoAuthCall EXCEPT !.pc = "header", !.header = h, !.mode = m]
  /\ authCount' = authCount + 1
  /\ UNCHANGED <<scrVars, sitemapVars, linkVars, notifyVars, cancelVars, buckets>>

\* The header and token checks, and the limiter of the preview token
CheckHeader ==
  /\ auth.pc = "header"
  /\ auth' =
       IF auth.header \in {NoHeader, BearerOnly} THEN Returned(AuthFailure(401))
       ELSE IF IsPreviewToken(auth.header)
         THEN [auth EXCEPT !.pc = "consume",
                           !.limiter = getRateLimiter("preview", auth.header, Null)]
         ELSE [auth EXCEPT !.pc = "rpc"]
  /\ UNCHANGED <<scrVars, sitemapVars, linkVars, notifyVars, cancelVars, buckets, authCount>>

\* Mutant of RpcAnswers: a token without a row goes on to the limiter like
\* any other, and is turned down by the api_keys query afterwards.
RpcAnswersUnchecked ==
  /\ auth.pc = "rpc"
  /\ LET data == KeyAndPriceId(auth.header) IN
       auth' =
         IF data = {}
         THEN [auth EXCEPT !.pc = "consume",
                           !.limiter = SelectLimiter(auth.mode, auth.header, Null)]
         ELSE LET row == CHOOSE d \in data : TRUE
                  plan == getPlanByPriceId(row.price_id)
              IN [auth EXCEPT !.pc = "consume", !.team_id = row.team_id, !.plan = plan,
                              !.limiter = SelectLimiter(auth.mode, auth.header, plan)]
  /\ UNCHANGED <<scrVars, sitemapVars, linkVars, notifyVars, cancelVars, buckets, authCount>>

\* get_key_and_price_id_2 answers: 401 without a row, else the team, its plan
\* and the limiter of the mode.
RpcAnswers ==
  /\ auth.pc = "rpc"
  /\ LET data == KeyAndPriceId(auth.header) IN
       auth' =
         IF data = {} THEN Returned(AuthFailure(401))
         ELSE LET row == CHOOSE d \in data : TRUE
                  plan == getPlanByPriceId(row.price_id)
              IN [auth EXCEPT !.pc = "consume", !.team_id = row.team_id, !.plan = plan,
                              !.limiter = SelectLimiter(auth.mode, auth.header, plan)]
  /\ UNCHANGED <<scrVars, sitemapVars, linkVars, notifyVars, cancelVars, buckets, authCount>>

\* get_key_and_price_id_2 returns an error.
RpcFails ==
  /\ auth.pc = "rpc"
  /\ auth' = Returned(AuthFailure(401))
  /\ UNCHANGED <<scrVars, sitemapVars, linkVars, notifyVars, cancelVars, buckets, authCount>>

\* Mutant of Consume: the preview token is given the preview team whatever
\* the mode.
ConsumePreviewAnyMode ==
  /\ auth.pc = "consume"
  /\ LET b == <<auth.limiter, IpToken(auth.header)>>
         outcome == OnConsume(IsRejected(auth.limiter, buckets[b]))
         counted == [auth EXCEPT !.nth = buckets[b].consumed + 1]
     IN /\ buckets' = [buckets EXCEPT ![b] = Consumed(auth.limiter, buckets[b])]
        /\ auth' =
             IF outcome = "limited"
               THEN [counted EXCEPT !.pc = "done", !.result = AuthFailure(429)]
             ELSE IF auth.header = PreviewToken
               THEN [counted EXCEPT !.pc = "done", !.result = AuthSuccess("preview")]
             ELSE [counted EXCEPT !.pc = "done", !.result = AuthSuccess(auth.team_id)]
  /\ UNCHANGED <<scrVars, sitemapVars, linkVars, notifyVars, cancelVars, authCount>>

\* rateLimiter.consume(iptoken), the 429 on its rejection, and the return of
\* the preview team
Consume ==
  /\ auth.pc = "consume"
  /\ LET b == <<auth.limiter, IpToken(auth.header)>>
         outcome == OnConsume(IsRejected(auth.limiter, buckets[b]))
         counted == [auth EXCEPT !.nth = buckets[b].consumed + 1]
     IN /\ buckets' = [buckets EXCEPT ![b] = Consumed(auth.limiter, buckets[b])]
        /\ auth' =
             IF outcome = "limited"
               THEN [counted EXCEPT !.pc = "done", !.result = AuthFailure(429)]
             ELSE IF auth.header = PreviewToken /\ auth.mode \in {"scrape", "preview", "search"}
               THEN [counted EXCEPT !.pc = "done", !.result = AuthSuccess("preview")]
             ELSE IF auth.team_id = Null
               THEN [counted EXCEPT !.pc = "apikeys"]
             ELSE [counted EXCEPT !.pc = "done", !.result = AuthSuccess(auth.team_id)]
  /\ UNCHANGED <<scrVars, sitemapVars, linkVars, notifyVars, cancelVars, authCount>>

\* What the api_keys query can answer for a key: the key's row, and for the
\* preview token, which the store may or may not hold as a key, a row or none.
ApiKeysAnswers(key) ==
  IF key = PreviewToken
  THEN {{}, {[team_id |-> "teamP", price_id |-> Null]}}
  ELSE {KeyAndPriceId(key)}

\* The api_keys query made when no subscription data was fetched
ApiKeysLookup ==
  /\ auth.pc = "apikeys"
  /\ \E data \in ApiKeysAnswers(auth.header) :
       auth' = IF data = {} THEN Returned(AuthFailure(401))
               ELSE Returned(AuthSuccess((CHOOSE d \in data : TRUE).team_id))
  /\ UNCHANGED <<scrVars, sitemapVars, linkVars, notifyVars, cancelVars, buckets, authCount>>

NextAuth ==
  \/ AuthBegin
  \/ CheckHeader
  \/ RpcAnswers
  \/ RpcFails
  \/ Consume
  \/ ApiKeysLookup

SpecAuth == InitAuth /\ [][NextAuth]_vars

(***************************************************************************)
(* getLinksFromSitemap, one traversal: the calls in progress are a stack,  *)
(* the innermost first; each request and each parse is a step.             *)
(***************************************************************************)

\* The traversal is followed down to this many calls within calls.
MaxSitemapDepth == 4

InitSitemap ==
  /\ ScrapeIdle
  /\ jobs = <<>>
  /\ req = <<>>
  /\ billed = <<>>
  /\ AuthIdle
  /\ network \in [SitemapUrls -> FetchOutcomes]
  /\ sitemapMode \in SitemapModes
  /\ sitemapStack = <<SitemapCall("/sitemap.xml")>>
  /\ allUrls = <<>>
  /\ fetched = <<>>
  /\ LinksIdle
  /\ NotifyIdle

\* the sequence s without the entries that have no loc
RECURSIVE WithLoc(_)
WithLoc(s) ==
  IF s = <<>> THEN <<>>
  ELSE IF Head(s) = NoLoc THEN WithLoc(Tail(s))
  ELSE <<Head(s)>> \o WithLoc(Tail(s))

\* Mutant of OnRequestFailed: the failure is thrown on to the callers.
OnRequestFailedAborts(stack) == <<>>

\* catch (error) { console.error(...); return allUrls; } around the request
OnRequestFailed(stack) == Tail(stack)

\* The call on top of the stack
Top == Head(sitemapStack)

\* The top call, moved on
TopAt(at) == <<[Top EXCEPT !.at = at]>> \o Tail(sitemapStack)

\* axios.get / scrapWithFireEngine brings a body.  scrapWithFireEngine never
\* throws: a failed request brings the empty html.
SitemapFetch ==
  /\ sitemapStack # <<>>
  /\ Top.at = "fetch"
  /\ network[Top.sitemapUrl] # "network-failure" \/ sitemapMode = "fire-engine"
  /\ sitemapStack' = TopAt("parse")
  /\ fetched' = Append(fetched, Top.sitemapUrl)
  /\ UNCHANGED <<scrVars, cancelVars, authVars, linkVars, notifyVars, network, sitemapMode, allUrls>>

\* axios.get throws: the call returns allUrls as it is.
SitemapFetchFails ==
  /\ sitemapStack # <<>>
  /\ Top.at = "fetch"
  /\ network[Top.sitemapUrl] = "network-failure" /\ sitemapMode = "axios"
  /\ sitemapStack' = OnRequestFailed(sitemapStack)
  /\ fetched' = Append(fetched, Top.sitemapUrl)
  /\ UNCHANGED <<scrVars, cancelVars, authVars, linkVars, notifyVars, network, sitemapMode, allUrls>>

\* parseStringPromise and the choice of root: a urlset's locs are pushed and
\* the call returns, a sitemapindex starts the loop over its entries.
SitemapParse ==
  /\ sitemapStack # <<>>
  /\ Top.at = "parse"
  /\ network[Top.sitemapUrl] = "ok"
  /\ LET parsed == Sitemaps(Top.sitemapUrl) IN
       IF parsed.root = "sitemapindex"
         THEN /\ sitemapStack' = TopAt("loop")
              /\ UNCHANGED allUrls
         ELSE /\ allUrls' = allUrls \o WithLoc(parsed.locs)
              /\ sitemapStack' = Tail(sitemapStack)
  /\ UNCHANGED <<scrVars, cancelVars, authVars, linkVars, notifyVars, network, sitemapMode, fetched>>

\* The body is no sitemap (or empty, after a failed fire-engine request):
\* parsing throws, or reading the root of nothing does; the outer catch logs
\* and the call returns allUrls.
SitemapParseFails ==
  /\ sitemapStack # <<>>
  /\ Top.at = "parse"
  /\ network[Top.sitemapUrl] # "ok"
  /\ sitemapStack' = Tail(sitemapStack)
  /\ UNCHANGED <<scrVars, cancelVars, authVars, linkVars, notifyVars, network, sitemapMode, allUrls, fetched>>

\* for (const sitemap of root.sitemap): the next entry with a loc is handed
\* to a recursive call; after the last one the call returns.
SitemapLoop ==
  /\ sitemapStack # <<>>
  /\ Top.at = "loop"
  /\ LET locs == Sitemaps(Top.sitemapUrl).locs IN
       sitemapStack' =
         IF Top.i > Len(locs) THEN Tail(sitemapStack)
         ELSE IF locs[Top.i] = NoLoc
           THEN <<[Top EXCEPT !.i = Top.i + 1]>> \o Tail(sitemapStack)
         ELSE <<SitemapCall(locs[Top.i]), [Top EXCEPT !.i = Top.i + 1]>>
                \o Tail(sitemapStack)
  /\ Len(sitemapStack') <= MaxSitemapDepth
  /\ UNCHANGED <<scrVars, cancelVars, authVars, linkVars, notifyVars, network, sitemapMode, allUrls, fetched>>

NextSitemap ==
  \/ SitemapFetch
  \/ SitemapFetchFails
  \/ SitemapParse
  \/ SitemapParseFails
  \/ SitemapLoop

SpecSitemap == InitSitemap /\ [][NextSitemap]_vars

\* The same traversal, of the site whose indexes list each other
InitSitemapLoop ==
  /\ ScrapeIdle
  /\ jobs = <<>>
  /\ req = <<>>
  /\ billed = <<>>
  /\ AuthIdle
  /\ network \in [LoopUrls -> FetchOutcomes]
  /\ sitemapMode \in SitemapModes
  /\ sitemapStack = <<SitemapCall("/loop.xml")>>
  /\ allUrls = <<>>
  /\ fetched = <<>>
  /\ LinksIdle
  /\ NotifyIdle

SpecSitemapLoop == InitSitemapLoop /\ [][NextSitemap]_vars

(***************************************************************************)
(* extractLinks, one call                                                  *)
(***************************************************************************)

MaxAnchors == 3

\* the sequences over S of length up to n
SeqsUpTo(S, n) == UNION {[1..k -> S] : k \in 0..n}

InitLinks ==
  /\ ScrapeIdle
  /\ jobs = <<>>
  /\ req = <<>>
  /\ billed = <<>>
  /\ AuthIdle
  /\ SitemapIdle
  /\ NotifyIdle
  /\ pageAnchors \in SeqsUpTo(Hrefs, MaxAnchors)
  /\ pageUrl \in BaseUrls
  /\ linksOnPage = <<>>
  /\ linksPc = "call"

ExtractLinksCall ==
  /\ linksPc = "call"
  /\ linksOnPage' = extractLinksOf(pageAnchors, pageUrl)
  /\ linksPc' = "returned"
  /\ UNCHANGED <<scrVars, cancelVars, authVars, sitemapVars, notifyVars, pageAnchors, pageUrl>>

NextLinks == ExtractLinksCall

SpecLinks == InitLinks /\ [][NextLinks]_vars

(***************************************************************************)
(* app.get('/serverHealthCheck/notify'): requests one after the other,      *)
(* while jobs come to wait in the queue and leave it.                      *)
(***************************************************************************)

treshold == 1

MaxWaitingJobs == 2
MaxNotifyRequests == 2

InitNotify ==
  /\ ScrapeIdle
  /\ jobs = <<>>
  /\ req = <<>>
  /\ billed = <<>>
  /\ AuthIdle
  /\ SitemapIdle
  /\ LinksIdle
  /\ notify \in {[NoNotify EXCEPT !.slack = s, !.waiting = w] :
                   s \in BOOLEAN, w \in 0..MaxWaitingJobs}

\* A request arrives.  With SLACK_WEBHOOK_URL set the handler answers 200
\* "Check initiated" and starts checkWaitingJobs; without it the handler's
\* body is skipped.
NotifyRequest ==
  /\ notify.pc \in {"idle", "finished"}
  /\ notify.requests < MaxNotifyRequests
  /\ LET fresh == [notify EXCEPT !.responded = FALSE, !.first = NoNumber,
                                 !.second = NoNumber, !.sent = FALSE,
                                 !.requests = notify.requests + 1]
     IN notify' = IF notify.slack
                  THEN [fresh EXCEPT !.pc = "check", !.responded = TRUE]
                  ELSE [fresh EXCEPT !.pc = "finished"]
  /\ UNCHANGED <<scrVars, cancelVars, authVars, sitemapVars, linkVars>>

\* let waitingJobsCount = await getWaitingJobsCount(), and the timer set when
\* it is at the threshold or above
FirstCheck ==
  /\ notify.pc = "check"
  /\ notify' = [notify EXCEPT !.first = notify.waiting,
                              !.pc = IF notify.waiting >= treshold
                                     THEN "timer" ELSE "finished"]
  /\ UNCHANGED <<scrVars, cancelVars, authVars, sitemapVars, linkVars>>

\* getWaitingJobsCount rejects: caught and logged.
FirstCheckFails ==
  /\ notify.pc = "check"
  /\ notify' = [notify EXCEPT !.pc = "finished"]
  /\ UNCHANGED <<scrVars, cancelVars, authVars, sitemapVars, linkVars>>

\* The timer fires: the count is read again, and Slack is to be posted to
\* when it is at the threshold or above.
TimerFires ==
  /\ notify.pc = "timer"
  /\ notify' = [notify EXCEPT !.second = notify.waiting,
                              !.pc = IF notify.waiting >= treshold
                                     THEN "post" ELSE "finished"]
  /\ UNCHANGED <<scrVars, cancelVars, authVars, sitemapVars, linkVars>>

\* getWaitingJobsCount rejects in the timer's callback.
RecheckFails ==
  /\ notify.pc = "timer"
  /\ notify' = [notify EXCEPT !.pc = "finished"]
  /\ UNCHANGED <<scrVars, cancelVars, authVars, sitemapVars, linkVars>>

\* await fetch(slackWebhookUrl, ...)
PostToSlack ==
  /\ notify.pc = "post"
  /\ notify' = [notify EXCEPT !.sent = TRUE, !.pc = "finished"]
  /\ UNCHANGED <<scrVars, cancelVars, authVars, sitemapVars, linkVars>>

\* fetch rejects: nothing reaches Slack.
PostFails ==
  /\ notify.pc = "post"
  /\ notify' = [notify EXCEPT !.pc = "finished"]
  /\ UNCHANGED <<scrVars, cancelVars, authVars, sitemapVars, linkVars>>

\* Jobs come to wait in the queue or leave it.
QueueChanges ==
  /\ \E w \in (0..MaxWaitingJobs) \ {notify.waiting} :
       notify' = [notify EXCEPT !.waiting = w]
  /\ UNCHANGED <<scrVars, cancelVars, authVars, sitemapVars, linkVars>>

NextNotify ==
  \/ NotifyRequest
  \/ FirstCheck
  \/ FirstCheckFails
  \/ TimerFires
  \/ RecheckFails
  \/ PostToSlack
  \/ PostFails
  \/ QueueChanges

SpecNotify == InitNotify /\ [][NextNotify]_vars

(***************************************************************************)
(* crawlCancelController: cancel requests running concurrently against     *)
(* the queue, each suspended at its awaits, beside the worker that makes   *)
(* the job progress.                                                       *)
(***************************************************************************)

MaxDocs == 2

Reqs == {1, 2}
Teams == {"teamA", "teamB"}
QueuedJobs == {"job1"}
JobIds == QueuedJobs \cup {"ghost"}

\* The rows of bulljobs_teams.
BullJobsTeams == {<<"job1", "teamA">>}

\* supabase_service.from("bulljobs_teams").select("*").eq(job_id).eq(team_id)
SelectRows(jobId, team) == {row \in BullJobsTeams : row[1] = jobId /\ row[2] = team}

JobStates == {"waiting", "active", "completed", "failed"}

NoResponse == [status |-> NoNumber, body |-> Null]

\* res.status(code).json({ error })
ErrorResponse(code) == [status |-> code, body |-> "error"]

\* res.json({ status: newJobState === "failed" ? "cancelled" : "Cancelling..." })
CancelResponse(newJobState) ==
  [status |-> 200, body |-> IF newJobState = "failed" THEN "cancelled" ELSE "Cancelling..."]

\* Mutant of IsUnauthorized: the ownership check is missing.
IsUnauthorizedMissing(data) == FALSE

\* if (data.length === 0) return res.status(403)
IsUnauthorized(data) == Cardinality(data) = 0

\* Mutant of ShouldBill: the partial docs are not looked at.
ShouldBillIgnoresDocs(partialDocs, jobState) == jobState = "active"

\* Mutant of ShouldBill: the job's state is not looked at.
ShouldBillIgnoresState(partialDocs, jobState) == partialDocs > 0

\* partialDocs && partialDocs.length > 0 && jobState === "active"
ShouldBill(partialDocs, jobState) == partialDocs > 0 /\ jobState = "active"

NewRequest(team, jobId) ==
  [pc |-> "auth", team |-> team, jobId |-> jobId, team_id |-> Null,
   data |-> {}, lookup |-> "none", jobState |-> Null, partialDocs |-> NoNumber,
   authResult |-> NoAuthResponse, jobCalls |-> 0,
   billCalls |-> 0, bills |-> 0, moves |-> 0, response |-> NoResponse]

\* The api key of a team
TeamKey(team) == CHOOSE k \in ApiKeys : \E d \in KeyAndPriceId(k) : d.team_id = team

\* The bucket a team's cancel requests consume from: authenticateUser is
\* called with RateLimiterMode.CrawlStatus.
CancelBucket(team) ==
  <<SelectLimiter("crawlStatus", TeamKey(team), Null), IpToken(TeamKey(team))>>

\* Buckets of which the teams' earlier requests have used some points
UsedBuckets(used) ==
  [b \in BucketIds |->
     IF \E t \in Teams : b = CancelBucket(t)
       THEN LET t == CHOOSE u \in Teams : b = CancelBucket(u)
            IN [consumed |-> used[t], admitted |-> used[t]]
       ELSE NoBuckets[b]]

InitCancel ==
  /\ jobs \in [QueuedJobs -> {j \in [state : JobStates, docs : 0..MaxDocs] :
                                j.state = "waiting" => j.docs = 0}]
  /\ req \in [Reqs -> {NewRequest(t, j) : t \in Teams, j \in JobIds}]
  /\ billed = <<>>
  /\ \E used \in [Teams -> 0..Points(CancelBucket("teamA")[1])] : buckets = UsedBuckets(used)
  /\ auth = NoAuthCall
  /\ authCount = 0
  /\ SitemapIdle
  /\ LinksIdle
  /\ NotifyIdle
  /\ ScrapeIdle

\* req with the fields of request r changed
Step(r, changes) ==
  [req EXCEPT ![r] = [f \in DOMAIN req[r] |->
                        IF f \in DOMAIN changes THEN changes[f] ELSE req[r][f]]]

\* Mutant of IsAuthFailure: the controller does not look at success.
IsAuthFailureIgnored(result) == FALSE

\* if (!success) return res.status(status).json({ error })
IsAuthFailure(result) == ~result.success

\* The controller with the AuthResponse in hand
AfterAuth(r, result) ==
  IF IsAuthFailure(result)
    THEN Step(r, [pc |-> "done", authResult |-> result,
                  response |-> ErrorResponse(result.status)])
    ELSE Step(r, [pc |-> "getJob", authResult |-> result, team_id |-> result.team_id])

\* authenticateUser succeeds: a point is consumed and the caller's team is known.
AuthOk(r) ==
  /\ req[r].pc = "auth"
  /\ LET b == CancelBucket(req[r].team) IN
       /\ OnConsume(IsRejected(b[1], buckets[b])) = "admitted"
       /\ buckets' = [buckets EXCEPT ![b] = Consumed(b[1], buckets[b])]
       /\ req' = AfterAuth(r, AuthSuccess(req[r].team))
  /\ UNCHANGED <<scrVars, sitemapVars, linkVars, notifyVars, auth, authCount, jobs, billed>>

\* The rate limiter rejects the consumption: authenticateUser returns 429.
AuthLimited(r) ==
  /\ req[r].pc = "auth"
  /\ LET b == CancelBucket(req[r].team) IN
       /\ OnConsume(IsRejected(b[1], buckets[b])) = "limited"
       /\ buckets' = [buckets EXCEPT ![b] = Consumed(b[1], buckets[b])]
       /\ req' = AfterAuth(r, AuthFailure(429))
  /\ UNCHANGED <<scrVars, sitemapVars, linkVars, notifyVars, auth, authCount, jobs, billed>>

\* authenticateUser fails before the limiter is asked (no token, or the key
\* query fails): 401.
AuthFails(r) ==
  /\ req[r].pc = "auth"
  /\ req' = AfterAuth(r, AuthFailure(401))
  /\ UNCHANGED <<scrVars, sitemapVars, linkVars, notifyVars, authVars, jobs, billed>>

\* getWebScraperQueue().getJob(jobId), and the 404 when there is none
GetJob(r) ==
  /\ req[r].pc = "getJob"
  /\ req' = IF req[r].jobId \in DOMAIN jobs
            THEN Step(r, [pc |-> "lookup", jobCalls |-> req[r].jobCalls + 1])
            ELSE Step(r, [pc |-> "done", jobCalls |-> req[r].jobCalls + 1,
                          response |-> ErrorResponse(404)])
  /\ UNCHANGED <<scrVars, sitemapVars, linkVars, notifyVars, authVars, jobs, billed>>

\* The bulljobs_teams query answers: 403 when it holds no row for the job
\* and the team.
Lookup(r) ==
  /\ req[r].pc = "lookup"
  /\ LET data == SelectRows(req[r].jobId, req[r].team_id) IN
       req' = IF IsUnauthorized(data)
              THEN Step(r, [pc |-> "done", data |-> data, lookup |-> "answered",
                            response |-> ErrorResponse(403)])
              ELSE Step(r, [pc |-> "getState", data |-> data, lookup |-> "answered"])
  /\ UNCHANGED <<scrVars, sitemapVars, linkVars, notifyVars, authVars, jobs, billed>>

\* The query returns an error, or the client throws: 500 either way.
LookupFails(r) ==
  /\ req[r].pc = "lookup"
  /\ req' = Step(r, [pc |-> "done", lookup |-> "failed", response |-> ErrorResponse(500)])
  /\ UNCHANGED <<scrVars, sitemapVars, linkVars, notifyVars, authVars, jobs, billed>>

\* const jobState = await job.getState()
GetState(r) ==
  /\ req[r].pc = "getState"
  /\ req' = Step(r, [pc |-> "progress", jobState |-> jobs[req[r].jobId].state])
  /\ UNCHANGED <<scrVars, sitemapVars, linkVars, notifyVars, authVars, jobs, billed>>

\* const { partialDocs } = await job.progress(), and the decision to bill
GetProgress(r) ==
  /\ req[r].pc = "progress"
  /\ LET docs == jobs[req[r].jobId].docs IN
       req' = Step(r, [pc |-> IF ShouldBill(docs, req[r].jobState) THEN "bill" ELSE "move",
                       partialDocs |-> docs])
  /\ UNCHANGED <<scrVars, sitemapVars, linkVars, notifyVars, authVars, jobs, billed>>

\* await billTeam(team_id, partialDocs.length)
BillTeam(r) ==
  /\ req[r].pc = "bill"
  /\ billed' = Append(billed, [team |-> req[r].team_id, job |-> req[r].jobId,
                               units |-> req[r].partialDocs, by |-> r])
  /\ req' = Step(r, [pc |-> "move", billCalls |-> req[r].billCalls + 1,
                     bills |-> req[r].bills + 1])
  /\ UNCHANGED <<scrVars, sitemapVars, linkVars, notifyVars, authVars, jobs>>

\* billTeam rejects: the outer catch answers 500.
BillTeamFails(r) ==
  /\ req[r].pc = "bill"
  /\ req' = Step(r, [pc |-> "done", billCalls |-> req[r].billCalls + 1,
                     response |-> ErrorResponse(500)])
  /\ UNCHANGED <<scrVars, sitemapVars, linkVars, notifyVars, authVars, jobs, billed>>

\* await job.moveToFailed(Error("Job cancelled by user"), true)
MoveToFailed(r) ==
  /\ req[r].pc = "move"
  /\ jobs' = [jobs EXCEPT ![req[r].jobId].state = "failed"]
  /\ req' = Step(r, [pc |-> "respond", moves |-> req[r].moves + 1])
  /\ UNCHANGED <<scrVars, sitemapVars, linkVars, notifyVars, authVars, billed>>

\* moveToFailed rejects: the error is logged and the request goes on.
MoveToFailedFails(r) ==
  /\ req[r].pc = "move"
  /\ req' = Step(r, [pc |-> "respond", moves |-> req[r].moves + 1])
  /\ UNCHANGED <<scrVars, sitemapVars, linkVars, notifyVars, authVars, jobs, billed>>

\* const newJobState = await job.getState(), and the answer
Respond(r) ==
  /\ req[r].pc = "respond"
  /\ req' = Step(r, [pc |-> "done",
                     response |-> CancelResponse(jobs[req[r].jobId].state)])
  /\ UNCHANGED <<scrVars, sitemapVars, linkVars, notifyVars, authVars, jobs, billed>>

\* The queue worker: a waiting job is picked up.
JobStarts(j) ==
  /\ jobs[j].state = "waiting"
  /\ jobs' = [jobs EXCEPT ![j].state = "active"]
  /\ UNCHANGED <<scrVars, sitemapVars, linkVars, notifyVars, authVars, req, billed>>

\* The queue worker: one more document is reported in the job's progress.
JobProgresses(j) ==
  /\ jobs[j].state = "active"
  /\ jobs[j].docs < MaxDocs
  /\ jobs' = [jobs EXCEPT ![j].docs = @ + 1]
  /\ UNCHANGED <<scrVars, sitemapVars, linkVars, notifyVars, authVars, req, billed>>

\* The queue worker: the job finishes.
JobCompletes(j) ==
  /\ jobs[j].state = "active"
  /\ jobs' = [jobs EXCEPT ![j].state = "completed"]
  /\ UNCHANGED <<scrVars, sitemapVars, linkVars, notifyVars, authVars, req, billed>>

NextCancel ==
  \/ \E r \in Reqs : AuthOk(r)
  \/ \E r \in Reqs : AuthLimited(r)
  \/ \E r \in Reqs : AuthFails(r)
  \/ \E r \in Reqs : GetJob(r)
  \/ \E r \in Reqs : Lookup(r)
  \/ \E r \in Reqs : LookupFails(r)
  \/ \E r \in Reqs : GetState(r)
  \/ \E r \in Reqs : GetProgress(r)
  \/ \E r \in Reqs : BillTeam(r)
  \/ \E r \in Reqs : BillTeamFails(r)
  \/ \E r \in Reqs : MoveToFailed(r)
  \/ \E r \in Reqs : MoveToFailedFails(r)
  \/ \E r \in Reqs : Respond(r)
  \/ \E j \in QueuedJobs : JobStarts(j)
  \/ \E j \in QueuedJobs : JobProgresses(j)
  \/ \E j \in QueuedJobs : JobCompletes(j)

SpecCancel == InitCancel /\ [][NextCancel]_vars

(***************************************************************************)
(* Properties of the fallback order                                        *)
(***************************************************************************)

\* C1: the order getScrapingFallbackOrder returns holds no scraper whose
\* required configuration is absent, the prepended defaultScraper included.
C1_OrderOnlyConfigured ==
  pc = "ordered" =>
    \A i \in DOMAIN scrapersInOrder : IsConfigured(scrapersInOrder[i], env)

(***************************************************************************)
(* Properties of scrapSingleUrl                                            *)
(***************************************************************************)

\* C2: once an attempt has yielded text of trimmed length >= 100, no further
\* iteration is entered and no scraper or override fetch is invoked.
C2_ShortCircuit ==
  [][(idx > 0 /\ attempt.text.len > 0 /\ attempt.text.trim >= MinTextLength)
       => (idx' = idx /\ calls' = calls /\ customCalls' = customCalls)]_vars

\* The first scraper of a longer order returned enough text and the call
\* returned without touching the others.
C2_Witness ==
  /\ pc = "done"
  /\ idx = 1
  /\ Len(scrapersInOrder) > 1
  /\ attempt.text.trim >= MinTextLength
  /\ calls[scrapersInOrder[1]] = 1
  /\ \A i \in 2..Len(scrapersInOrder) : TotalCalls(scrapersInOrder[i]) = 0

\* C3: once an attempt has reported status 404, no further iteration is
\* entered, nothing more is fetched, and the Document returned carries 404.
C3_NotFoundHalts ==
  [][(idx > 0 /\ attempt.pageStatusCode = 404)
       => /\ idx' = idx /\ calls' = calls /\ customCalls' = customCalls
          /\ (pc' = "done" => document'.metadata.pageStatusCode = 404)]_vars

\* A 404 with a short body from the first scraper of a longer order, returned.
C3_Witness ==
  /\ pc = "done"
  /\ idx = 1
  /\ Len(scrapersInOrder) > 1
  /\ attempt.pageStatusCode = 404
  /\ attempt.text.len > 0 /\ attempt.text.trim < MinTextLength
  /\ document.metadata.pageStatusCode = 404

\* C4: with existingHtml of trimmed length >= 100 no scraper and no override
\* fetch is ever invoked, whatever the order.
C4_ExistingHtmlBypass ==
  (existingHtml.len > 0 /\ existingHtml.trim >= MinTextLength) =>
    /\ \A f \in Range(baseScrapers) : calls[f] = 0
    /\ \A f \in CustomFetchers : customCalls[f] = 0
    /\ idx = 0

\* The call returned from crawler-supplied HTML of exactly 100 characters,
\* with all five scrapers in the order.
C4_Witness ==
  /\ pc = "done"
  /\ existingHtml.trim = MinTextLength
  /\ Len(scrapersInOrder) = 5
  /\ idx = 0

\* C5: scrapSingleUrl never rejects: the call is at one of its positions, a
\* loop position always has an iteration left to run, and the Document it
\* returns has the trimmed input URL as metadata.sourceURL.
C5_NeverThrows ==
  /\ pc \in {"entry", "loop", "after", "done"}
  /\ pc = "loop" => idx < Len(scrapersInOrder)
  /\ pc = "done" => document.metadata.sourceURL = TrimUrl(inputUrl)

\* Link extraction threw on an unparseable URL after a fetch had brought text,
\* and the call still returned.
C5_Witness ==
  /\ pc = "done"
  /\ raised = "extract"
  /\ ~IsParseable(urlToScrap)
  /\ document.metadata.sourceURL = "not a url"

\* The three content fields of a Document are empty strings.
IsTotalFailure(doc) ==
  doc.content = EmptyStr /\ doc.markdown = EmptyStr /\ doc.html = EmptyStr

\* C6: a returned Document either has non-empty content or has content,
\* markdown and html all empty, never anything else; sourceURL is set in both.
C6_TwoShapes ==
  pc = "done" =>
    /\ (document.content.len > 0) # IsTotalFailure(document)
    /\ document.metadata.sourceURL = urlToScrap
    /\ document.metadata.sourceURL \notin {Null, ""}

\* A fetch whose markdown came out empty ended as a total-failure Document
\* although the caller asked for html.
C6_Witness ==
  /\ pc = "done"
  /\ idx > 0
  /\ pageOptions.includeHtml
  /\ raised = "check"
  /\ IsTotalFailure(document)

\* C7: when every scraper of the order timed out, the Document has empty
\* content, the input URL as sourceURL and a non-empty pageError.
C7_TimeoutsReported ==
  (pc = "done" /\ idx > 0 /\ idx = Len(scrapersInOrder) /\ allTimedOut) =>
    /\ document.content = EmptyStr
    /\ document.metadata.sourceURL = urlToScrap
    /\ document.metadata.pageError \notin {Null, ""}

\* No attempt of the call brought sufficient text, none threw, and the last
\* one was no PDF.  (The loop goes on only after an insufficient attempt, so
\* the last attempt being insufficient means they all were.)
AllAttemptsInsufficient ==
  /\ pc = "done"
  /\ idx > 0
  /\ raised # "attempt"
  /\ ~(attempt.text.len > 0 /\ attempt.text.trim >= MinTextLength)
  /\ attempt.rawHtml # PPdf.raw

C9_NoScraperTwice ==
  \A f \in Range(baseScrapers) : TotalCalls(f) <= 1

\* C9 as amended: the loop invokes no scraper more than once, and goes down
\* the order one scraper at a time: the scrapers it has invoked are exactly
\* the configured ones among the first idx of the order.  Only fire-engine,
\* through the override, can be invoked more often.
C9_LoopTriesEachOnce ==
  /\ \A f \in Range(baseScrapers) :
       calls[f] = IF \E i \in 1..idx : scrapersInOrder[i] = f /\ IsConfigured(f, env)
                  THEN 1 ELSE 0
  /\ \A f \in Range(baseScrapers) \ {"fire-engine"} : TotalCalls(f) <= 1
  /\ customCalls["fire-engine"] + customCalls["pdf"] <= idx

\* Two scrapers failed one after the other, each invoked once, and the
\* override fetched with fire-engine in between.
C9_Witness ==
  /\ idx >= 2
  /\ calls[scrapersInOrder[1]] = 1
  /\ calls[scrapersInOrder[2]] = 1
  /\ scrapersInOrder[1] = "fire-engine"
  /\ TotalCalls("fire-engine") > 1

(***************************************************************************)
(* Properties of crawlCancelController                                     *)
(***************************************************************************)

\* C10: a cancel request for a job with no bulljobs_teams row for the caller's
\* team never bills and never moves the job, and once the ownership query has
\* answered it is rejected with 403.
C10_ForeignCancelRejected ==
  \A r \in Reqs :
    (/\ req[r].team_id # Null
     /\ ~(\E row \in BullJobsTeams : row = <<req[r].jobId, req[r].team_id>>)) =>
       /\ req[r].bills = 0
       /\ req[r].moves = 0
       /\ req[r].pc \in {"getJob", "lookup", "done"}
       /\ (req[r].lookup = "answered" =>
             req[r].pc = "done" /\ req[r].response = ErrorResponse(403))

\* Another team's request for an active job with partial docs got its 403
\* and the job is as it was.
C10_Witness ==
  \E r \in Reqs :
    /\ req[r].team_id = "teamB"
    /\ req[r].jobId = "job1"
    /\ req[r].lookup = "answered"
    /\ req[r].response.status = 403
    /\ jobs["job1"].state = "active"
    /\ jobs["job1"].docs > 0
    /\ billed = <<>>

\* The request has read the job's state and progress and acted on what it read.
HasDecided(r) == req[r].partialDocs # NoNumber /\ req[r].pc # "bill"

\* C11: a cancel request calls billTeam exactly when the state it read was
\* active and the progress it read held at least one partial doc, with that
\* number of docs, and it calls moveToFailed only after the billing completed.
C11_BillsSnapshotBeforeMove ==
  \A r \in Reqs :
    /\ req[r].billCalls = 0 => req[r].bills = 0
    /\ HasDecided(r) =>
         /\ req[r].billCalls \in {0, 1}
         /\ req[r].billCalls = 1 <=> (req[r].jobState = "active" /\ req[r].partialDocs > 0)
    /\ req[r].bills = 1 =>
         \E i \in DOMAIN billed :
           billed[i] = [team |-> req[r].team_id, job |-> req[r].jobId,
                        units |-> req[r].partialDocs, by |-> r]
    /\ req[r].moves > 0 => req[r].bills = req[r].billCalls

\* A request billed the two docs it read on the active job and then moved it.
C11_Witness ==
  \E r \in Reqs :
    /\ req[r].jobState = "active"
    /\ req[r].partialDocs = MaxDocs
    /\ req[r].bills = 1
    /\ req[r].moves = 1
    /\ jobs[req[r].jobId].state = "failed"

\* the billTeam calls that completed for job j
BillsFor(j) == {i \in DOMAIN billed : billed[i].job = j}

\* C12 as claimed: under every interleaving of cancel requests a job's partial
\* results are billed at most once.
C12_BilledAtMostOnce ==
  \A j \in QueuedJobs : Cardinality(BillsFor(j)) <= 1

\* C12 as amended: each cancel request bills at most once, and only when its
\* own read of the job's state found it active.
C12_EachRequestBillsOnce ==
  \A r \in Reqs :
    /\ req[r].billCalls <= 1
    /\ req[r].billCalls > 0 => req[r].jobState = "active"
    /\ Cardinality({i \in DOMAIN billed : billed[i].by = r}) = req[r].bills

\* One request billed and failed the job; the other read the failed state
\* afterwards, with partial docs there, and went on without billing.
C12_Witness ==
  \E r1, r2 \in Reqs :
    /\ r1 # r2
    /\ req[r1].jobId = req[r2].jobId
    /\ req[r1].bills = 1
    /\ req[r2].jobState = "failed"
    /\ req[r2].partialDocs > 0
    /\ req[r2].pc = "done"
    /\ req[r2].response.status = 200
    /\ req[r2].billCalls = 0

\* C13: an authorized cancel request answered without an error leaves the job
\* failed, and the answer says "cancelled" exactly when the job is failed.
C13_CancelledMeansFailed ==
  \A r \in Reqs :
    (req[r].pc = "done" /\ req[r].response.status = 200) =>
      /\ jobs[req[r].jobId].state = "failed"
      /\ req[r].response.body = "cancelled" <=> jobs[req[r].jobId].state = "failed"

\* C14: when billTeam fails the job is still moved and the caller still gets
\* the cancellation response.
C14_BillingFailureNotPropagated ==
  \A r \in Reqs :
    (req[r].pc = "done" /\ req[r].billCalls > req[r].bills) =>
      /\ req[r].moves > 0
      /\ req[r].response.status = 200

\* queued -> active and active -> completed | failed
DeclaredTransitions ==
  {<<"waiting", "active">>, <<"active", "completed">>, <<"active", "failed">>}

\* C15: a job's state changes only along the declared transitions.
C15_DeclaredTransitionsOnly ==
  [][\A j \in QueuedJobs :
       jobs[j].state # jobs'[j].state =>
         <<jobs[j].state, jobs'[j].state>> \in DeclaredTransitions]_vars

\* C17: a cancel request whose consumption the rate limiter rejected gets 429
\* from authentication, with no team id, and is answered with it before any
\* job lookup, ownership query, billing or move.
C17_RateLimitedBeforeWork ==
  \A r \in Reqs :
    req[r].authResult.status = 429 =>
      /\ ~req[r].authResult.success
      /\ req[r].authResult.team_id = Null
      /\ req[r].pc = "done"
      /\ req[r].response = ErrorResponse(429)
      /\ req[r].team_id = Null
      /\ req[r].jobCalls = 0
      /\ req[r].lookup = "none"
      /\ req[r].billCalls = 0
      /\ req[r].moves = 0

\* The team's bucket was used up by its first request; the second got 429
\* while the job, active with partial docs, stayed unbilled.
C17_Witness ==
  \E r1, r2 \in Reqs :
    /\ req[r1].authResult.success
    /\ req[r2].authResult.status = 429
    /\ req[r1].team = req[r2].team
    /\ req[r2].jobId = "job1"
    /\ req[r2].response.status = 429
    /\ jobs["job1"].state = "active"
    /\ jobs["job1"].docs > 0
    /\ billed = <<>>

(***************************************************************************)
(* Properties of supaAuthenticateUser                                      *)
(***************************************************************************)

Min(a, b) == IF a <= b THEN a ELSE b

\* C16: of the consumptions made under one key of a limiter with N points,
\* the first N are admitted and authentication goes on, and every later one
\* is rejected and answered 429.
C16_ExactlyNAdmitted ==
  /\ \A b \in BucketIds : buckets[b].admitted = Min(buckets[b].consumed, Points(b[1]))
  /\ auth.nth > 0 =>
       /\ auth.nth <= Points(auth.limiter) => auth.result.status # 429
       /\ auth.nth > Points(auth.limiter) =>
            auth.pc = "done" /\ auth.result = AuthFailure(429)

\* The third consumption under a key of a limiter with two points was rejected.
C16_Witness ==
  /\ auth.pc = "done"
  /\ auth.nth = 3
  /\ Points(auth.limiter) = 2
  /\ auth.result.status = 429
  /\ buckets[<<auth.limiter, IpToken(auth.header)>>].admitted = 2

\* The call holds an api key's team and has chosen its limiter.
HasSelected == auth.team_id # Null /\ auth.limiter # NoLimiter

\* For a team on another plan the same request gets another limiter, with
\* other points.
PlanDecidesLimiter ==
  \A p \in Plans \ {auth.plan} :
    /\ SelectLimiter(auth.mode, auth.header, p) # auth.limiter
    /\ Points(SelectLimiter(auth.mode, auth.header, p)) # Points(auth.limiter)

\* C18 as claimed: whatever the mode, the limiter chosen for an api key's
\* request depends on the team's plan.
C18_EveryModeLimitedByPlan ==
  HasSelected => PlanDecidesLimiter

\* C18 as amended: the limiter depends on the plan for crawl and scrape
\* requests, and is the same for every plan for the other modes.
C18_CrawlAndScrapeLimitedByPlan ==
  HasSelected =>
    IF auth.mode \in {"crawl", "scrape"}
      THEN auth.limiter.plan = auth.plan /\ PlanDecidesLimiter
      ELSE \A p \in Plans : SelectLimiter(auth.mode, auth.header, p) = auth.limiter

\* A scale team's scrape request was admitted by the scale limiter of scrape.
C18_Witness ==
  /\ auth.pc = "done"
  /\ auth.mode = "scrape"
  /\ auth.plan = "scale"
  /\ auth.limiter = [mode |-> "scrape", plan |-> "scale"]
  /\ auth.result.success

\* C19: a request with the preview token consumes from the preview limiter
\* whatever its mode, and from no other limiter.
C19_PreviewTokenPreviewBucket ==
  /\ (auth.header = PreviewToken /\ auth.pc \in {"consume", "apikeys", "done"}) =>
       /\ auth.limiter = getRateLimiter("preview", PreviewToken, Null)
       /\ auth.pc # "consume" => auth.nth > 0
  /\ \A b \in BucketIds :
       (b[2] = IpToken(PreviewToken) /\ b[1].mode # "preview") => buckets[b].consumed = 0

\* A crawl request with the preview token took a point of the preview limiter.
C19_Witness ==
  /\ auth.header = PreviewToken
  /\ auth.mode = "crawl"
  /\ auth.nth = 1
  /\ buckets[<<getRateLimiter("preview", PreviewToken, Null), IpToken(PreviewToken)>>].consumed = 1

(***************************************************************************)
(* Properties of getLinksFromSitemap                                       *)
(***************************************************************************)

\* The urls a sitemap contributes when every sitemap whose request fails, or
\* whose body is no sitemap, contributes nothing: the urlset's own locs, or
\* the contributions of the index's children in the order listed.
RECURSIVE Contribution(_)
RECURSIVE Contributions(_)
Contribution(sitemapUrl) ==
  IF network[sitemapUrl] # "ok" THEN <<>>
  ELSE IF Sitemaps(sitemapUrl).root = "urlset" THEN WithLoc(Sitemaps(sitemapUrl).locs)
  ELSE Contributions(WithLoc(Sitemaps(sitemapUrl).locs))
Contributions(locs) ==
  IF locs = <<>> THEN <<>>
  ELSE Contribution(Head(locs)) \o Contributions(Tail(locs))

\* The traversal has returned.
SitemapDone == network # <<>> /\ sitemapStack = <<>>

\* C20: a sitemap whose request fails contributes no urls and stops nothing:
\* every child listed in an index that was read is requested, before or after
\* the failing one, and the result holds the urls of all that could be read.
C20_FailedBranchOnly ==
  SitemapDone =>
    /\ allUrls = Contribution("/sitemap.xml")
    /\ \A s \in SitemapUrls :
         (s \in Range(fetched) /\ network[s] = "ok" /\ Sitemaps(s).root = "sitemapindex") =>
           \A i \in DOMAIN Sitemaps(s).locs :
             Sitemaps(s).locs[i] # NoLoc => Sitemaps(s).locs[i] \in Range(fetched)

\* The request for the first child failed; the children after it were read
\* and their urls are in the result, the failed child's are not.
C20_Witness ==
  /\ SitemapDone
  /\ network["/sitemap.xml"] = "ok"
  /\ network["/posts.xml"] = "network-failure"
  /\ network["/docs.xml"] = "ok"
  /\ network["/docs-api.xml"] = "network-failure"
  /\ network["/pages.xml"] = "ok"
  /\ allUrls = <<"/about", "/post/1">>
  /\ fetched = <<"/sitemap.xml", "/posts.xml", "/docs.xml", "/docs-api.xml", "/pages.xml">>

\* Deduplication is by the url without its trailing slash.
NormalizedUrl(u) == IF u = "/about/" THEN "/about" ELSE u

\* C21: the urls the traversal returns hold no url twice, a url with and
\* without its trailing slash being the same url.
C21_NoDuplicateUrls ==
  SitemapDone =>
    \A i, j \in DOMAIN allUrls :
      NormalizedUrl(allUrls[i]) = NormalizedUrl(allUrls[j]) => i = j

\* C22: the traversal comes to an end whatever the sitemaps list: no sitemap
\* is entered again while a call for it is still in progress (the documents
\* being what they are, such a call would enter it again, without end).
C22_NoSitemapReentered ==
  \A i, j \in DOMAIN sitemapStack :
    sitemapStack[i].sitemapUrl = sitemapStack[j].sitemapUrl => i = j

(***************************************************************************)
(* Properties of extractLinks                                              *)
(***************************************************************************)

\* the position at which link is first pushed
FirstPushed(link) ==
  LET pushed == PushedLinks(pageAnchors, pageUrl)
  IN CHOOSE i \in DOMAIN pushed : pushed[i] = link /\ \A k \in 1..(i - 1) : pushed[k] # link

\* C23: the links extractLinks returns hold every link of the page once, in
\* the order of the links' first occurrences in the page.
C23_LinksOnceInPageOrder ==
  linksPc = "returned" =>
    /\ Range(linksOnPage) = Range(PushedLinks(pageAnchors, pageUrl))
    /\ \A i, j \in DOMAIN linksOnPage :
         /\ linksOnPage[i] = linksOnPage[j] => i = j
         /\ i < j => FirstPushed(linksOnPage[i]) < FirstPushed(linksOnPage[j])

\* The page links to /a by its absolute url, to another site, and to /a again
\* by its path: two links are returned, in that order.
C23_Witness ==
  /\ linksPc = "returned"
  /\ pageAnchors = <<"https://example.com/a", "http://other.org/", "/a">>
  /\ linksOnPage = <<"https://example.com/a", "http://other.org/">>

\* The hrefs with a scheme that is neither http(s) nor mailto
OtherSchemeHrefs == {"tel:123"}

\* The link the claim gives an anchor: absolute and mailto hrefs as they are,
\* paths resolved, fragments and other schemes dropped.
ClaimedLinkOf(href, baseUrl) ==
  IF href \in OtherSchemeHrefs THEN <<>> ELSE LinkOf(href, baseUrl)

RECURSIVE ClaimedLinks(_, _)
ClaimedLinks(anchors, baseUrl) ==
  IF anchors = <<>> THEN <<>>
  ELSE ClaimedLinkOf(Head(anchors), baseUrl) \o ClaimedLinks(Tail(anchors), baseUrl)

\* C28: absolute http(s) hrefs and mailto: hrefs are kept as they are, paths
\* are resolved against the origin or the fetched url, and fragment-only
\* hrefs and hrefs of any other scheme produce no entry.
C28_OtherSchemesDropped ==
  linksPc = "returned" =>
    /\ Range(linksOnPage) = Range(ClaimedLinks(pageAnchors, pageUrl))
    /\ \A i \in DOMAIN linksOnPage : \A h \in OtherSchemeHrefs :
         linksOnPage[i] # pageUrl \o "/" \o h

(***************************************************************************)
(* Properties of one attempt of scrapSingleUrl                             *)
(***************************************************************************)

\* The attempt's working text is the text extracted from a PDF.
IsPdfAttempt == attempt # NoAttempt /\ attempt.rawHtml = PPdf.raw

\* C24: when the response is a PDF, the text the attempt returns is the text
\* the PDF extraction gave, and removeUnwantedElements has not been applied
\* to it on that attempt.
C24_PdfNotCleaned ==
  IsPdfAttempt =>
    /\ attempt.text.of = "pdf"
    /\ attempt.html.form # "clean"

(***************************************************************************)
(* Further properties of the fallback order                                *)
(***************************************************************************)

\* the position of scraper in the sequence s, 0 when it is not in it
PositionIn(s, scraper) ==
  IF scraper \in Range(s) THEN CHOOSE i \in DOMAIN s : s[i] = scraper ELSE 0

\* the preference list the call works from
PreferenceOrder ==
  defaultOrder(isWaitPresent(pageOptions), isScreenshotPresent(pageOptions),
               isHeadersPresent(pageOptions))

ClaimedNeedsJs(po) ==
  \/ po.waitFor # NoNumber /\ po.waitFor > 0
  \/ po.screenshot = TRUE
  \/ po.headers = "set"

\* s without the scrapers that are not configured
ConfiguredOf(s) == SelectSeq(s, LAMBDA scraper : IsConfigured(scraper, env))

\* C26: without a defaultScraper, the order is fire-engine, playwright and
\* then the rest of the static order exactly when the wait is above 0, a
\* screenshot is asked for or the headers are not empty, and is the static
\* order otherwise (headers absent or empty); either way without the
\* scrapers that are not configured.
C26_PromotedWhenNeeded ==
  (pc = "ordered" /\ defaultScraper = "") =>
    IF ClaimedNeedsJs(pageOptions)
    THEN scrapersInOrder =
           ConfiguredOf(<<"fire-engine", "playwright", "scrapingBee", "scrapingBeeLoad", "fetch">>)
    ELSE scrapersInOrder =
           ConfiguredOf(<<"scrapingBee", "fire-engine", "playwright", "scrapingBeeLoad", "fetch">>)

(***************************************************************************)
(* Properties of the custom-scraping override                              *)
(***************************************************************************)

\* The call has made one attempt, and the override fetched in it.
OverrideInOnlyAttempt ==
  /\ idx = 1
  /\ attempt # NoAttempt
  /\ customCalls["fire-engine"] + customCalls["pdf"] = 1

\* the bodies the override of the only attempt can have brought back
OverrideBodies ==
  UNION {{p.raw : p \in CustomPages(c)} : c \in {f \in CustomFetchers : customCalls[f] = 1}}

\* C27: when the override fetches, the attempt's text and the attempt's
\* screenshot are the override's, and the Document carries that text's
\* markdown and that screenshot.
C27_OverrideReplacesTextAndScreenshot ==
  OverrideInOnlyAttempt =>
    /\ attempt.rawHtml \in OverrideBodies
    /\ attempt.screenshot = CustomScreenshot
    /\ screenshot = CustomScreenshot
    /\ (pc = "done" /\ raised = Null) =>
         /\ document.content = parseMarkdown(removeUnwantedElements(attempt.rawHtml))
         /\ document.metadata.screenshot = Null

(***************************************************************************)
(* Properties of the requests' timeouts                                    *)
(***************************************************************************)

\* the scrapers the loop has invoked so far
InvokedScrapers ==
  {scrapersInOrder[i] : i \in {k \in 1..idx : IsInvoked(scrapersInOrder[k], env)}}

\* the wait a request asks the service for, 0 when it asks for none
RequestedWait(request) == IF request.wait = NoNumber THEN 0 ELSE request.wait

\* the base timeout of a sitemap request
SitemapBaseTimeout(mode) == IF mode = "axios" THEN axiosTimeout ELSE universalTimeout

\* A scraper that does not answer: the attempt ends with empty text and the
\* loop goes on to the next scraper, if there is one.
TimedOutAttemptsMoveOn ==
  (allTimedOut /\ idx >= 1) =>
    /\ attempt.text = EmptyStr
    /\ text = EmptyStr
    /\ idx < Len(scrapersInOrder) => pc = "loop"

C30_OrderNeverEmpty ==
  pc # "entry" =>
    /\ scrapersInOrder # <<>>
    /\ "fetch" \in Range(scrapersInOrder)
    /\ \A scraper \in Range(baseScrapers) :
         IsConfigured(scraper, env) =>
           Cardinality({i \in DOMAIN scrapersInOrder : scrapersInOrder[i] = scraper}) = 1
    /\ pc # "loop" => (idx >= 1 \/ UsesExistingHtml(existingHtml))

\* Nothing is configured: the order is fetch alone, and fetch has been tried.
C30_Witness ==
  /\ env = {}
  /\ scrapersInOrder = <<"fetch">>
  /\ idx = 1
  /\ calls["fetch"] = 1
  /\ pc = "after"

(***************************************************************************)
(* Properties of the Document's status and error                           *)
(***************************************************************************)

\* C31: a Document, of the try block or of the catch block, carries a
\* pageError only with a pageStatusCode of 400 or more; the working values
\* keep to this all along, an attempt that reports a status below 400
\* leaving no pageError behind.
C31_ErrorOnlyWithErrorStatus ==
  /\ pageError # Null => pageStatusCode >= 400
  /\ (/\ attempt # NoAttempt
      /\ attempt.pageStatusCode # NoNumber
      /\ attempt.pageStatusCode > 0
      /\ attempt.pageStatusCode < 400) => pageError = Null
  /\ pc = "done" =>
       (document.metadata.pageError # Null => document.metadata.pageStatusCode >= 400)

\* A first scraper answered 500 with its error and a second one timed out,
\* reporting no status: the Document of the catch block carries the 500 and
\* the first scraper's error.
C31_Witness ==
  /\ pc = "done"
  /\ idx = 2
  /\ attempt.pageStatusCode = NoNumber
  /\ attempt.pageError = "Request timed out"
  /\ document.metadata.pageStatusCode = 500
  /\ document.metadata.pageError = "Internal Server Error"

\* C32: the pageStatusCode of a returned Document is a status one of the
\* call's attempts reported.  When no attempt was made (the existingHtml
\* iteration) or every attempt timed out, no status was reported and the
\* Document carries none; after a single attempt it carries that attempt's.
C32_StatusWasReported ==
  pc = "done" =>
    /\ (idx = 0 \/ allTimedOut) => document.metadata.pageStatusCode = NoNumber
    /\ idx = 1 => document.metadata.pageStatusCode = attempt.pageStatusCode

(***************************************************************************)
(* Which attempt's result the Document is built from                       *)
(***************************************************************************)

\* C33 as claimed: an attempt that comes back without text does not take the
\* place of a text, html and rawHtml an earlier attempt left.
C33_EarlierTextKept ==
  [][(/\ text # EmptyStr
      /\ attempt' # attempt
      /\ attempt'.text = EmptyStr)
     => (text' = text /\ html' = html /\ rawHtml' = rawHtml)]_vars

\* C33 as amended: the working text, html and rawHtml are those of the last
\* attempt, whatever earlier attempts left, and the Document is built from
\* them.
C33_LastAttemptWins ==
  attempt # NoAttempt =>
    /\ text = attempt.text
    /\ html = attempt.html
    /\ rawHtml = attempt.rawHtml
    /\ (pc = "done" /\ raised = Null) => document.content = attempt.text
    /\ (pc = "done" /\ attempt.text = EmptyStr) => document.content = EmptyStr

\* Two scrapers were tried and the second came back without text: the call
\* ends with the Document of the catch block.
C33_Witness ==
  /\ pc = "done"
  /\ idx = 2
  /\ calls[scrapersInOrder[2]] = 1
  /\ attempt.text = EmptyStr
  /\ attempt.pageStatusCode = 200
  /\ raised = "check"
  /\ document.content = EmptyStr

\* C34: the Document of a call that was handed a page body of 100 characters
\* or more is made of that body: its content is the body's markdown, its
\* links are read from the body, and its rawHtml, when asked for, is the body.
C34_DocumentFromExistingHtml ==
  (pc = "done" /\ raised = Null /\ UsesExistingHtml(existingHtml)) =>
    /\ document.content = parseMarkdown(removeUnwantedElements(existingHtml))
    /\ document.linksOnPage = extractLinks(existingHtml)
    /\ pageOptions.includeRawHtml => document.rawHtml = existingHtml

(***************************************************************************)
(* Further properties of supaAuthenticateUser                              *)
(***************************************************************************)

\* The request names no api key that exists and is not the preview token's.
IsUnknownCaller ==
  \/ auth.header \in {NoHeader, BearerOnly}
  \/ auth.header # PreviewToken /\ KeyAndPriceId(auth.header) = {}

\* C35: a request without Authorization header, without token, or with a
\* token that is neither the preview token nor a known key is answered 401
\* without having consumed from any bucket, and no bucket of an unknown key
\* is ever consumed from.
C35_UnknownCallerConsumesNothing ==
  /\ (auth.pc \notin {"idle", "header"} /\ IsUnknownCaller) =>
       /\ auth.pc = "rpc" \/ (auth.pc = "done" /\ auth.result = AuthFailure(401))
       /\ auth.nth = 0
  /\ \A b \in BucketIds : b[2] = IpToken("key-unknown") => buckets[b].consumed = 0

\* After a request that consumed a point, a request with an unknown key was
\* answered 401.
C35_Witness ==
  /\ auth.pc = "done"
  /\ auth.header = "key-unknown"
  /\ auth.result = AuthFailure(401)
  /\ authCount = 2
  /\ \E b \in BucketIds : buckets[b].consumed = 1

\* the bucket the call consumes from
AuthBucket == <<auth.limiter, IpToken(auth.header)>>

RECURSIVE ConsumedIn(_)
ConsumedIn(bs) ==
  IF bs = {} THEN 0
  ELSE LET b == CHOOSE x \in bs : TRUE
       IN buckets[b].consumed + ConsumedIn(bs \ {b})

\* C36: a call that returns success has consumed once, from the bucket of its
\* limiter under the key IP + token and from no other, the consumption was
\* admitted, and the result names a team.
C36_SuccessAfterOneConsumption ==
  /\ (auth.pc = "done" /\ auth.result.success) =>
       /\ auth.nth >= 1
       /\ auth.nth <= Points(auth.limiter)
       /\ buckets[AuthBucket].consumed = auth.nth
       /\ auth.result.team_id # Null
       /\ authCount = 1 => ConsumedIn(BucketIds) = 1
  /\ ConsumedIn(BucketIds) <= authCount

\* A standard team's second crawl request succeeded on the second point of
\* its bucket.
C36_Witness ==
  /\ auth.pc = "done"
  /\ auth.header = "key-standard"
  /\ auth.mode = "crawl"
  /\ auth.result = AuthSuccess("teamB")
  /\ auth.nth = 2
  /\ buckets[AuthBucket].consumed = 2
  /\ ConsumedIn(BucketIds) = 2

\* The modes in which the preview token stands for the preview team
PreviewModes == {"scrape", "preview", "search"}

\* the teams the api_keys store can name for the call's token
TeamsOfToken ==
  {row.team_id : row \in UNION ApiKeysAnswers(auth.header)}

\* A finished call with the preview token in a mode that grants it nothing
PreviewTokenOtherMode ==
  /\ auth.pc = "done"
  /\ auth.header = PreviewToken
  /\ auth.mode \notin PreviewModes

\* The preview token is the preview team in the preview modes and in no other.
PreviewTeamOnlyInPreviewModes ==
  (auth.pc = "done" /\ auth.header = PreviewToken /\ auth.result.success) =>
    IF auth.mode \in PreviewModes
    THEN auth.result.team_id = "preview"
    ELSE auth.result.team_id \in TeamsOfToken /\ auth.result.team_id # "preview"

\* C37 as claimed: the preview token is the preview team only for scrape,
\* preview and search; in any other mode it succeeds only as a key of the
\* api_keys store, and a call that does not succeed is answered 401.
C37_PreviewElse401 ==
  /\ PreviewTeamOnlyInPreviewModes
  /\ (PreviewTokenOtherMode /\ ~auth.result.success) => auth.result.status = 401

\* C37 as amended: as claimed, but a call that does not succeed is answered
\* 429 when the preview limiter has turned it down, which comes before the
\* look at the api_keys store, and 401 when the store holds no such key.
C37_PreviewElse401Or429 ==
  /\ PreviewTeamOnlyInPreviewModes
  /\ (PreviewTokenOtherMode /\ ~auth.result.success) =>
       IF auth.nth > Points(auth.limiter)
       THEN auth.result.status = 429
       ELSE auth.result.status = 401

\* A crawl request with the preview token was admitted by the limiter and
\* turned down for want of a key in the store.
C37_Witness ==
  /\ auth.pc = "done"
  /\ auth.header = PreviewToken
  /\ auth.mode = "crawl"
  /\ auth.nth = 1
  /\ auth.result = AuthFailure(401)

(***************************************************************************)
(* Further properties of crawlCancelController                             *)
(***************************************************************************)

\* The precondition request r has failed at, Null when it has failed at none
\* (so far): authentication, the job's presence in the queue, the ownership
\* query, the ownership itself.
FailedPrecondition(r) ==
  IF req[r].pc = "auth" THEN Null
  ELSE IF ~req[r].authResult.success THEN "auth"
  ELSE IF req[r].jobCalls > 0 /\ req[r].jobId \notin DOMAIN jobs THEN "job"
  ELSE IF req[r].lookup = "failed" THEN "query"
  ELSE IF req[r].lookup = "answered" /\ req[r].data = {} THEN "owner"
  ELSE Null

\* the status each failed precondition is answered with
PreconditionStatus(r) ==
  CASE FailedPrecondition(r) = "auth" -> req[r].authResult.status
    [] FailedPrecondition(r) = "job" -> 404
    [] FailedPrecondition(r) = "query" -> 500
    [] FailedPrecondition(r) = "owner" -> 403
    [] OTHER -> NoNumber

\* C38: a cancel request that fails authentication (401 or 429), names a job
\* the queue does not hold, meets an error of the ownership query or is not
\* the job's owner is answered at once with the status of that failure, and
\* has called neither billTeam nor moveToFailed.
C38_FailedPreconditionNoEffect ==
  \A r \in Reqs :
    FailedPrecondition(r) # Null =>
      /\ req[r].pc = "done"
      /\ req[r].response = ErrorResponse(PreconditionStatus(r))
      /\ req[r].response.status \in {401, 429, 404, 500, 403}
      /\ req[r].billCalls = 0
      /\ req[r].bills = 0
      /\ req[r].moves = 0
      /\ req[r].jobState = Null

\* One request named a job the queue does not hold and the other met an error
\* of the ownership query: 404 and 500, and the active job with its partial
\* docs is neither billed nor moved.
C38_Witness ==
  \E r1, r2 \in Reqs :
    /\ req[r1].jobId = "ghost"
    /\ req[r1].response = ErrorResponse(404)
    /\ req[r2].jobId = "job1"
    /\ req[r2].lookup = "failed"
    /\ req[r2].response = ErrorResponse(500)
    /\ jobs["job1"].state = "active"
    /\ jobs["job1"].docs > 0
    /\ billed = <<>>

(***************************************************************************)
(* Properties of /serverHealthCheck/notify                                 *)
(***************************************************************************)

\* C39: a request whose handler has nothing left to do has been sent a
\* response, with SLACK_WEBHOOK_URL set or not, and Slack is posted to only
\* when the waiting count was at the threshold or above at the first check
\* and again when the timer fired.
C39_AnsweredAndNotifiedAfterTwoChecks ==
  /\ notify.pc = "finished" => notify.responded
  /\ notify.sent =>
       /\ notify.first # NoNumber /\ notify.first >= treshold
       /\ notify.second # NoNumber /\ notify.second >= treshold

====
